---------------------------- MODULE Spec2Model ----------------------------
(***************************************************************************)
(* Discrete Bayesian networks (graphical_models DiscreteDAG): network      *)
(* objects with their conditional tables, the structural edits, fitting,  *)
(* sampling and the variable-elimination runs of the get_marginals family. *)
(*                                                                         *)
(* Probabilities are exact rationals <<n, d>>; <<0, 0>> is NaN and         *)
(* <<1, 0>> is +inf.  A log-domain number is the record [lg |-> q] that    *)
(* stands for log(q), so that -inf is [lg |-> <<0, 1>>].  A tensor is a    *)
(* record [shape, data] whose data maps 0-based index tuples to numbers.   *)
(***************************************************************************)
EXTENDS Integers, Sequences, FiniteSets, TLC

VARIABLES nets, heap, last, ve

vars == <<nets, heap, last, ve>>

(***************************************************************************)
(* Sequences and sets                                                      *)
(***************************************************************************)
Range(s) == {s[i] : i \in DOMAIN s}

IndexOf(s, x) == CHOOSE i \in DOMAIN s : s[i] = x

NoDup(s) == \A i, j \in DOMAIN s : s[i] = s[j] => i = j

RECURSIVE SeqSum(_)
SeqSum(s) == IF s = <<>> THEN 0 ELSE Head(s) + SeqSum(Tail(s))

\* the ascending list of a set of integers
RECURSIVE SortedSeq(_)
SortedSeq(S) ==
    IF S = {} THEN <<>>
    ELSE LET m == CHOOSE x \in S : \A y \in S : x <= y
         IN <<m>> \o SortedSeq(S \ {m})

\* every ordering of a finite set, as sequences without repetition
Perms(S) == {s \in [1..Cardinality(S) -> S] : Range(s) = S}

(***************************************************************************)
(* Exact arithmetic                                                        *)
(***************************************************************************)
RECURSIVE GCD(_, _)
GCD(a, b) == IF b = 0 THEN a ELSE GCD(b, a % b)

NaN == <<0, 0>>
Inf == <<1, 0>>
Zero == <<0, 1>>
One == <<1, 1>>

Rat(n, d) ==
    IF d = 0 THEN (IF n = 0 THEN NaN ELSE Inf)
    ELSE LET g == GCD(n, d) IN <<n \div g, d \div g>>

IsNaN(a) == a = NaN
IsFinite(a) == a[2] # 0

RAdd(a, b) ==
    IF IsNaN(a) \/ IsNaN(b) THEN NaN
    ELSE IF a = Inf \/ b = Inf THEN Inf
    ELSE LET g == GCD(a[2], b[2])
         IN Rat(a[1] * (b[2] \div g) + b[1] * (a[2] \div g), (a[2] \div g) * b[2])

RMul(a, b) ==
    IF IsNaN(a) \/ IsNaN(b) THEN NaN
    ELSE IF a = Inf \/ b = Inf
         THEN (IF a = Zero \/ b = Zero THEN NaN ELSE Inf)
    ELSE LET g == GCD(a[1], b[2])
             h == GCD(b[1], a[2])
         IN Rat((a[1] \div g) * (b[1] \div h), (a[2] \div h) * (b[2] \div g))

\* numpy true division of non-negative numbers: x/0 is inf, 0/0 is nan
RDiv(a, b) ==
    IF IsNaN(a) \/ IsNaN(b) THEN NaN
    ELSE IF b = Inf THEN (IF a = Inf THEN NaN ELSE Zero)
    ELSE IF a = Inf THEN Inf
    ELSE IF b[1] = 0 THEN Rat(a[1], 0)
    ELSE RMul(a, <<b[2], b[1]>>)

\* the sum of f[x] over x in S
RECURSIVE RSumSet(_, _)
RSumSet(S, f) ==
    IF S = {} THEN Zero
    ELSE LET x == CHOOSE y \in S : TRUE
         IN RAdd(f[x], RSumSet(S \ {x}, f))

\* x > eps for eps = 1e-10 (no_warn_log's default): n/d > 10^-10 iff
\* floor(d/n) < 10^10, computed in two steps of 10^5 to stay in range
EpsRoot == 100000

GtEps(a) ==
    IF IsNaN(a) THEN FALSE
    ELSE IF a = Inf THEN TRUE
    ELSE a[1] > 0 /\ ((a[2] \div a[1]) \div EpsRoot) < EpsRoot

(***************************************************************************)
(* Log domain                                                              *)
(***************************************************************************)
NegInf == [lg |-> Zero]

np_log(x) == [lg |-> x]

no_warn_log(x) == IF GtEps(x) THEN np_log(x) ELSE NegInf

np_exp(l) == l.lg

LogAdd(a, b) == [lg |-> RMul(a.lg, b.lg)]

LogSub(a, b) == [lg |-> RDiv(a.lg, b.lg)]

(***************************************************************************)
(* Tensors                                                                 *)
(***************************************************************************)
MaxShape(shape) ==
    IF shape = <<>> THEN 0
    ELSE CHOOSE m \in Range(shape) : \A x \in Range(shape) : x <= m

Idx(shape) ==
    {f \in [1..Len(shape) -> 0..(MaxShape(shape) - 1)] :
        \A i \in 1..Len(shape) : f[i] < shape[i]}

Tensor(shape, F(_)) == [shape |-> shape, data |-> [ix \in Idx(shape) |-> F(ix)]]

Rank(t) == Len(t.shape)

Err(kind) == [err |-> kind]

IsErr(x) == "err" \in DOMAIN x

IsTensor(x) == "shape" \in DOMAIN x

MapTensor(t, F(_)) == [shape |-> t.shape, data |-> [ix \in DOMAIN t.data |-> F(t.data[ix])]]


(***************************************************************************)
(* Table algebra.  Axis names are node labels; DNew is the name "d_new"   *)
(* of the axis of the node whose table is being added.  Positions in a    *)
(* list are 1-based here and 0-based in the source.                        *)
(***************************************************************************)
DNew == -1

\* einops.repeat(tensor, "left -> right", **sizes): axes are matched by
\* name, an axis absent from the left is repeated to its given size
einops_repeat(t, left, right, sizes) ==
    IF \/ Len(left) # Rank(t)
       \/ ~NoDup(left) \/ ~NoDup(right)
       \/ ~(Range(left) \subseteq Range(right))
       \/ \E i \in DOMAIN right : right[i] \notin Range(left) /\ right[i] \notin DOMAIN sizes
    THEN Err("EinopsError")
    ELSE LET shape == [i \in 1..Len(right) |->
                         IF right[i] \in Range(left)
                         THEN t.shape[IndexOf(left, right[i])]
                         ELSE sizes[right[i]]]
         IN [shape |-> shape,
             data |-> [ix \in Idx(shape) |->
                         t.data[[j \in 1..Len(left) |-> ix[IndexOf(right, left[j])]]]]]

NoneDims == [none |-> TRUE, map |-> <<>>]
Dims(m) == [none |-> FALSE, map |-> m]

repeat_dimensions(tensor, curr_dims, new_dims, dim_sizes, add_new) ==
    LET start_dims == IF add_new THEN Append(curr_dims, DNew) ELSE curr_dims
        end_dims == IF add_new THEN Append(new_dims, DNew) ELSE new_dims
        fresh == {new_dims[i] : i \in DOMAIN new_dims} \ Range(curr_dims)
    IN IF fresh # {} /\ dim_sizes.none THEN Err("TypeError")
       ELSE IF ~(fresh \subseteq DOMAIN dim_sizes.map) THEN Err("KeyError")
       ELSE einops_repeat(tensor, start_dims, end_dims,
                          [x \in fresh |-> dim_sizes.map[x]])

\* numpy broadcasting of a + b for tensors of log-domain numbers
BroadcastShape(sa, sb) ==
    LET n == IF Len(sa) > Len(sb) THEN Len(sa) ELSE Len(sb)
        pa == [i \in 1..n |-> IF i > n - Len(sa) THEN sa[i - (n - Len(sa))] ELSE 1]
        pb == [i \in 1..n |-> IF i > n - Len(sb) THEN sb[i - (n - Len(sb))] ELSE 1]
    IN [ok |-> \A i \in 1..n : pa[i] = pb[i] \/ pa[i] = 1 \/ pb[i] = 1,
        pa |-> pa, pb |-> pb,
        shape |-> [i \in 1..n |-> IF pa[i] = 1 THEN pb[i] ELSE pa[i]]]

BroadcastAdd(a, b) ==
    LET bs == BroadcastShape(a.shape, b.shape)
        n == Len(bs.shape)
        Pick(t, p, ix) ==
            t.data[[j \in 1..Len(t.shape) |->
                      IF p[j + (n - Len(t.shape))] = 1 THEN 0
                      ELSE ix[j + (n - Len(t.shape))]]]
    IN IF ~bs.ok THEN Err("ValueError")
       ELSE [shape |-> bs.shape,
             data |-> [ix \in Idx(bs.shape) |->
                         LogAdd(Pick(a, bs.pa, ix), Pick(b, bs.pb, ix))]]

Reshape1(table) ==
    [shape |-> Append(table.shape, 1),
     data |-> [ix \in Idx(Append(table.shape, 1)) |->
                 table.data[SubSeq(ix, 1, Len(table.shape))]]]

add_variable(table, current_variables, conditional, node2dims, parents) ==
    LET log_conditional == MapTensor(conditional, no_warn_log)
        rep == repeat_dimensions(log_conditional, parents, current_variables,
                                 Dims(node2dims), TRUE)
    IN IF IsErr(rep) THEN rep
       ELSE BroadcastAdd(Reshape1(table), rep)

\* logsumexp(table, axis=tuple(ixs)): the axes at positions ixs are summed out
marginalize(table, ixs) ==
    IF ~NoDup(ixs) THEN Err("ValueError")
    ELSE IF \E i \in DOMAIN ixs : ixs[i] \notin 1..Rank(table) THEN Err("AxisError")
    ELSE LET keep == SelectSeq([i \in 1..Rank(table) |-> i], LAMBDA i : i \notin Range(ixs))
             drop == SelectSeq([i \in 1..Rank(table) |-> i], LAMBDA i : i \in Range(ixs))
             shape == [k \in 1..Len(keep) |-> table.shape[keep[k]]]
             dshape == [k \in 1..Len(drop) |-> table.shape[drop[k]]]
             Full(ix, dx) == [i \in 1..Rank(table) |->
                                IF i \in Range(ixs) THEN dx[IndexOf(drop, i)]
                                ELSE ix[IndexOf(keep, i)]]
         IN [shape |-> shape,
             data |-> [ix \in Idx(shape) |->
                         [lg |-> RSumSet(Idx(dshape),
                                         [dx \in Idx(dshape) |-> table.data[Full(ix, dx)].lg])]]]

\* einops.einsum(a, b, "na, nb -> out"): product summed over the names
\* that are not in out
einops_einsum(a, na, b, nb, out) ==
    LET names == Range(na) \cup Range(nb)
        size == [x \in names |->
                   IF x \in Range(na) THEN a.shape[IndexOf(na, x)]
                   ELSE b.shape[IndexOf(nb, x)]]
        summed == SortedSeq(names \ Range(out))
        sshape == [k \in 1..Len(summed) |-> size[summed[k]]]
        shape == [k \in 1..Len(out) |-> size[out[k]]]
        Val(x, ix, sx) == IF x \in Range(out) THEN ix[IndexOf(out, x)]
                          ELSE sx[IndexOf(summed, x)]
    IN IF \/ Len(na) # Rank(a) \/ Len(nb) # Rank(b)
          \/ ~NoDup(na) \/ ~NoDup(nb) \/ ~NoDup(out)
          \/ ~(Range(out) \subseteq names)
       THEN Err("EinopsError")
       ELSE IF \E x \in Range(na) \cap Range(nb) :
                  a.shape[IndexOf(na, x)] # b.shape[IndexOf(nb, x)]
       THEN Err("EinopsError")
       ELSE [shape |-> shape,
             data |-> [ix \in Idx(shape) |->
                RSumSet(Idx(sshape),
                    [sx \in Idx(sshape) |->
                       RMul(a.data[[j \in 1..Len(na) |-> Val(na[j], ix, sx)]],
                            b.data[[j \in 1..Len(nb) |-> Val(nb[j], ix, sx)]])])]]

\* x / x.sum(axis=-1, keepdims=True)
NormalizeLast(t) ==
    LET k == Rank(t)
        RowSum(ix) == RSumSet(0..(t.shape[k] - 1),
                              [v \in 0..(t.shape[k] - 1) |-> t.data[[ix EXCEPT ![k] = v]]])
    IN [shape |-> t.shape,
        data |-> [ix \in Idx(t.shape) |-> RDiv(t.data[ix], RowSum(ix))]]

(***************************************************************************)
(* The DAG collaborator (graphical_models.classes.dags.dag.DAG)            *)
(***************************************************************************)
children_of(arcs, node) == {a[2] : a \in {b \in arcs : b[1] = node}}

parents_of(arcs, node) == {a[1] : a \in {b \in arcs : b[2] = node}}

RECURSIVE AncestorsOf(_, _)
AncestorsOf(arcs, S) ==
    LET more == S \cup {a[1] : a \in {b \in arcs : b[2] \in S}}
    IN IF more = S THEN S ELSE AncestorsOf(arcs, more)

\* ancestral_subgraph(nodes): the DAG induced by nodes and their ancestors
ancestral_subgraph(g, S) ==
    LET an == AncestorsOf(g.arcs, S \cap g.nodes)
    IN [nodes |-> an, arcs |-> {a \in g.arcs : a[1] \in an /\ a[2] \in an}]

\* the total orders of the nodes that are consistent with the arcs
TopologicalSorts(g) ==
    {t \in Perms(g.nodes) :
        \A a \in g.arcs : IndexOf(t, a[1]) < IndexOf(t, a[2])}

(***************************************************************************)
(* DiscreteDAG.  A network is a record [nodes, node_list, arcs,            *)
(* conditionals, node2parents, node_alphabets]; conditionals is the        *)
(* mapping node -> table here and the address of that dict in the heap    *)
(* once the object is stored.  node2parents and node_alphabets are held   *)
(* by value: no operation mutates them in place.                           *)
(***************************************************************************)
node2dims(self) == [n \in DOMAIN self.node_alphabets |-> Len(self.node_alphabets[n])]

node2ix(self, node) == IndexOf(self.node_list, node)

ExpectedShape(node2parents, node_alphabets, node) ==
    [i \in 1..(Len(node2parents[node]) + 1) |->
        Len(node_alphabets[Append(node2parents[node], node)[i]])]

\* __init__: every node of node2parents has its table checked against the
\* alphabets of its parents and of itself
DiscreteDAG(nodes, arcs, conditionals, node2parents, node_alphabets) ==
    IF \E n \in DOMAIN node2parents :
          \/ ~(Range(node2parents[n]) \cup {n} \subseteq DOMAIN node_alphabets)
          \/ n \notin DOMAIN conditionals
    THEN Err("KeyError")
    ELSE IF \E n \in DOMAIN node2parents :
          conditionals[n].shape # ExpectedShape(node2parents, node_alphabets, n)
    THEN Err("AssertionError")
    ELSE [nodes |-> Range(nodes), node_list |-> nodes, arcs |-> arcs,
          conditionals |-> conditionals, node2parents |-> node2parents,
          node_alphabets |-> node_alphabets]

\* the list Python makes of a set of small integers
ListOfSet(S) == SortedSeq(S)

indicator_conditional(input_alphabets, output_alphabet, value) ==
    LET shape == [i \in 1..(Len(input_alphabets) + 1) |->
                    IF i <= Len(input_alphabets) THEN Len(input_alphabets[i])
                    ELSE Len(output_alphabet)]
    IN IF value \notin Range(output_alphabet) THEN Err("ValueError")
       ELSE Tensor(shape, LAMBDA ix :
                IF output_alphabet[ix[Len(shape)] + 1] = value THEN One ELSE Zero)

\* the intervention if the arcs into the target were kept
get_hard_interventional_dag_keep_arcs(self, target_node, value) ==
    LET node_alphabet == self.node_alphabets[target_node]
    IN DiscreteDAG(ListOfSet(self.nodes), self.arcs,
                   [node \in self.nodes |->
                       IF node # target_node THEN self.conditionals[node]
                       ELSE Tensor(<<Len(node_alphabet)>>, LAMBDA ix :
                              IF node_alphabet[ix[1] + 1] = value THEN One ELSE Zero)],
                   [self.node2parents EXCEPT ![target_node] = <<>>],
                   self.node_alphabets)

get_hard_interventional_dag(self, target_node, value) ==
    IF target_node \notin DOMAIN self.node_alphabets
       \/ ~(self.nodes \subseteq DOMAIN self.conditionals)
       \/ target_node \notin self.nodes
    THEN Err("KeyError")
    ELSE
    LET node_alphabet == self.node_alphabets[target_node]
        target_conditional ==
            Tensor(<<Len(node_alphabet)>>, LAMBDA ix :
                IF node_alphabet[ix[1] + 1] = value THEN One ELSE Zero)
        new_conditionals ==
            [node \in self.nodes |->
                IF node # target_node THEN self.conditionals[node]
                ELSE target_conditional]
        new_node2parents == [self.node2parents EXCEPT ![target_node] = <<>>]
        new_arcs == {a \in self.arcs : a[2] # target_node}
    IN DiscreteDAG(ListOfSet(self.nodes), new_arcs, new_conditionals,
                   new_node2parents, self.node_alphabets)

Restrict(f, S) == [x \in S |-> f[x]]

\* the parent list if the parents of the marginalized node came first
NewParents_inherited_first(self, marginalized_node, m_child) ==
    SelectSeq(self.node2parents[marginalized_node],
              LAMBDA p : p \notin Range(self.node2parents[m_child]))
    \o SelectSeq(self.node2parents[m_child], LAMBDA p : p # marginalized_node)

\* the parent list a child of the marginalized node gets
NewParents(self, marginalized_node, m_child) ==
    SelectSeq(self.node2parents[m_child], LAMBDA p : p # marginalized_node)
    \o SelectSeq(self.node2parents[marginalized_node],
                 LAMBDA p : p \notin Range(self.node2parents[m_child]))

\* the table if the marginalized node's own table were left out of the sum
NewConditional_unweighted(self, marginalized_node, m_child) ==
    LET np == NewParents(self, marginalized_node, m_child)
        old == Append(self.node2parents[m_child], m_child)
        dm == Len(self.node_alphabets[marginalized_node])
        shape == [i \in 1..(Len(np) + 1) |->
                    Len(self.node_alphabets[Append(np, m_child)[i]])]
        At(ix, v) == [i \in 1..Len(old) |->
                        IF old[i] = marginalized_node THEN v
                        ELSE ix[IndexOf(Append(np, m_child), old[i])]]
    IN NormalizeLast(Tensor(shape, LAMBDA ix :
          RSumSet(0..(dm - 1),
                  [v \in 0..(dm - 1) |-> self.conditionals[m_child].data[At(ix, v)]])))

\* the table a child of the marginalized node gets
NewConditional(self, marginalized_node, m_child) ==
    LET es == einops_einsum(
                self.conditionals[m_child],
                Append(self.node2parents[m_child], m_child),
                self.conditionals[marginalized_node],
                Append(self.node2parents[marginalized_node], marginalized_node),
                Append(NewParents(self, marginalized_node, m_child), m_child))
    IN IF IsErr(es) THEN es ELSE NormalizeLast(es)

Relabel(marginalized_node, node) ==
    IF node < marginalized_node THEN node ELSE node - 1

\* returns [dag, labels] or an error
get_marginal_dag_node(self, marginalized_node, relabel) ==
    LET m_children == children_of(self.arcs, marginalized_node)
        new_nodes == self.nodes \ {marginalized_node}
        new_arcs0 == {a \in self.arcs : a[2] # marginalized_node /\ a[1] # marginalized_node}
    IN
    IF \/ marginalized_node \notin DOMAIN self.node2parents
       \/ marginalized_node \notin DOMAIN self.conditionals
       \/ ~(m_children \subseteq DOMAIN self.node2parents)
       \/ ~(self.nodes \subseteq DOMAIN self.conditionals)
    THEN Err("KeyError")
    ELSE
    LET new_node2parents ==
            [n \in DOMAIN self.node2parents \ {marginalized_node} |->
                IF n \in m_children THEN NewParents(self, marginalized_node, n)
                ELSE self.node2parents[n]]
        new_arcs == new_arcs0 \cup
            UNION {{<<p, c>> : p \in Range(new_node2parents[c])} : c \in m_children}
        new_conditionals ==
            [n \in new_nodes |->
                IF n \in m_children THEN NewConditional(self, marginalized_node, n)
                ELSE self.conditionals[n]]
        new_alphabets == Restrict(self.node_alphabets,
                                  DOMAIN self.node_alphabets \ {marginalized_node})
        labels == [n \in new_nodes |->
                     IF relabel THEN Relabel(marginalized_node, n) ELSE n]
        Inv(x) == CHOOSE n \in new_nodes : labels[n] = x
    IN
    IF \E c \in m_children : IsErr(new_conditionals[c])
    THEN Err("EinopsError")
    ELSE IF ~relabel
    THEN LET d == DiscreteDAG(ListOfSet(new_nodes), new_arcs, new_conditionals,
                              new_node2parents, new_alphabets)
         IN IF IsErr(d) THEN d ELSE [dag |-> d, labels |-> labels]
    ELSE IF \/ \E a \in new_arcs : a[1] \notin new_nodes \/ a[2] \notin new_nodes
            \/ ~(DOMAIN new_node2parents \subseteq new_nodes)
            \/ \E n \in DOMAIN new_node2parents :
                   ~(Range(new_node2parents[n]) \subseteq new_nodes)
            \/ ~(DOMAIN new_alphabets \subseteq new_nodes)
    THEN Err("KeyError")
    ELSE LET r_nodes == {labels[n] : n \in new_nodes}
             d == DiscreteDAG(
                    ListOfSet(r_nodes),
                    {<<labels[a[1]], labels[a[2]]>> : a \in new_arcs},
                    [x \in r_nodes |-> new_conditionals[Inv(x)]],
                    [x \in {labels[n] : n \in DOMAIN new_node2parents} |->
                        [i \in 1..Len(new_node2parents[Inv(x)]) |->
                            labels[new_node2parents[Inv(x)][i]]]],
                    [x \in {labels[n] : n \in DOMAIN new_alphabets} |->
                        new_alphabets[Inv(x)]])
         IN IF IsErr(d) THEN d ELSE [dag |-> d, labels |-> labels]

\* the loop if each node were removed under its original label
RECURSIVE MarginalDagLoop_original_label(_, _, _, _)
MarginalDagLoop_original_label(new_dag, relabeling_function, nodes2marginalize, relabel) ==
    IF nodes2marginalize = <<>>
    THEN [dag |-> new_dag, labels |-> relabeling_function]
    ELSE LET node == nodes2marginalize[Len(nodes2marginalize)]
             rest == SubSeq(nodes2marginalize, 1, Len(nodes2marginalize) - 1)
             r == get_marginal_dag_node(new_dag, node, relabel)
         IN IF IsErr(r) THEN r
            ELSE MarginalDagLoop_original_label(
                   r.dag,
                   [n \in {x \in DOMAIN relabeling_function :
                             relabeling_function[x] \in DOMAIN r.labels} |->
                       r.labels[relabeling_function[n]]],
                   rest, relabel)

RECURSIVE MarginalDagLoop(_, _, _, _)
MarginalDagLoop(new_dag, relabeling_function, nodes2marginalize, relabel) ==
    IF nodes2marginalize = <<>>
    THEN [dag |-> new_dag, labels |-> relabeling_function]
    ELSE LET node == nodes2marginalize[Len(nodes2marginalize)]
             rest == SubSeq(nodes2marginalize, 1, Len(nodes2marginalize) - 1)
         IN IF node \notin DOMAIN relabeling_function THEN Err("KeyError")
            ELSE LET r == get_marginal_dag_node(new_dag, relabeling_function[node], relabel)
                 IN IF IsErr(r) THEN r
                    ELSE MarginalDagLoop(
                           r.dag,
                           [n \in {x \in DOMAIN relabeling_function :
                                     relabeling_function[x] \in DOMAIN r.labels} |->
                               r.labels[relabeling_function[n]]],
                           rest, relabel)

\* returns [dag, labels] or an error
get_marginal_dag(self, marginalized_nodes, relabel) ==
    MarginalDagLoop(self, [n \in self.nodes |-> n], marginalized_nodes, relabel)

(***************************************************************************)
(* Fitting.  data is a list of rows, a row a list of integer codes with    *)
(* the value of node n at position n + 1.                                  *)
(***************************************************************************)
Alpha == 1

\* get_conditional(data, node, vals, [], [], add_one, alpha)
get_conditional_root(data, node, vals, add_one, alpha) ==
    LET counts == [i \in 1..Len(vals) |->
                     Cardinality({r \in DOMAIN data : data[r][node + 1] = vals[i]})
                     + (IF add_one THEN alpha ELSE 0)]
        total == SeqSum(counts)
    IN Tensor(<<Len(vals)>>, LAMBDA ix : Rat(counts[ix[1] + 1], total))

get_conditional(data, node, vals, parent_ixs, parent_alphabets, add_one, alpha) ==
    IF Len(parent_ixs) = 0
    THEN get_conditional_root(data, node, vals, add_one, alpha)
    ELSE
    LET nvals == Len(vals)
        shape == [i \in 1..(Len(parent_ixs) + 1) |->
                    IF i <= Len(parent_ixs) THEN Len(parent_alphabets[i]) ELSE nvals]
        ParentVals(r) == [i \in 1..Len(parent_ixs) |-> data[r][parent_ixs[i] + 1]]
        parent_vals_list == {ParentVals(r) : r \in DOMAIN data}
        Sub(pv) == SelectSeq(data, LAMBDA row :
                      \A i \in 1..Len(parent_ixs) : row[parent_ixs[i] + 1] = pv[i])
    IN IF \E pv \in parent_vals_list : \E i \in DOMAIN pv : pv[i] \notin 0..(shape[i] - 1)
       THEN Err("IndexError")
       ELSE Tensor(shape, LAMBDA ix :
              LET pv == SubSeq(ix, 1, Len(parent_ixs))
              IN IF pv \in parent_vals_list /\ Len(Sub(pv)) > 0
                 THEN get_conditional_root(Sub(pv), node, vals, add_one, alpha)
                         .data[<<ix[Len(ix)]>>]
                 ELSE Rat(1, nvals))

None == [none |-> TRUE]
Some(v) == [none |-> FALSE, val |-> v]

MaxOf(S) == CHOOSE m \in S : \A x \in S : x <= m

\* DiscreteDAG.fit with method "mle" or "add_one_mle"
fit(dag, data, node2parents_arg, node_alphabets_arg, method) ==
    IF method \notin {"mle", "add_one_mle", "xgboost", "random_forest", "logistic"}
    THEN Err("NotImplementedError")
    ELSE IF node_alphabets_arg.none /\ data = <<>> THEN Err("ValueError")
    ELSE
    LET node2parents ==
            IF node2parents_arg.none
            THEN [n \in dag.nodes |-> ListOfSet(parents_of(dag.arcs, n))]
            ELSE node2parents_arg.val
        node_alphabets ==
            IF node_alphabets_arg.none
            THEN [n \in dag.nodes |->
                    [i \in 1..(MaxOf({data[r][n + 1] : r \in DOMAIN data}) + 1) |-> i - 1]]
            ELSE node_alphabets_arg.val
        add_one == method = "add_one_mle"
        conditionals ==
            [n \in dag.nodes |->
                get_conditional(data, n, node_alphabets[n], node2parents[n],
                                [i \in 1..Len(node2parents[n]) |->
                                    node_alphabets[node2parents[n][i]]],
                                add_one, Alpha)]
    IN IF \E n \in dag.nodes : IsErr(conditionals[n]) THEN Err("IndexError")
       ELSE DiscreteDAG(ListOfSet(dag.nodes), dag.arcs, conditionals,
                        node2parents, node_alphabets)

(***************************************************************************)
(* Variable elimination.  A run is a record st with pc in start, join,     *)
(* elim, finish, done, raised; each operator below is one step of the      *)
(* loop of the method it is named after.  t is the topological order of    *)
(* the ancestral subgraph anc of the targets; pos is the position in t of  *)
(* the node the loop is at.                                                 *)
(***************************************************************************)
StartRun == [pc |-> "start"]

Raised(st, kind) == [pc |-> "raised", out |-> Err(kind)] @@ st

Done(st, out) ==
    IF IsErr(out) THEN [pc |-> "raised", out |-> out] @@ st
    ELSE [pc |-> "done", out |-> out] @@ st

\* the choice without the test on the children
Marginalizable_without_children_test(anc, st, marginal_nodes) ==
    {node \in Range(st.current_nodes) : node \notin Range(marginal_nodes)}

\* the nodes of current_nodes that get_marginals sums out after new_node
Marginalizable(anc, st, marginal_nodes) ==
    {node \in Range(st.current_nodes) :
        /\ children_of(anc.arcs, node) \subseteq st.added_nodes
        /\ node \notin Range(marginal_nodes)}

\* the nodes of current_nodes that get_marginal sums out after new_node
MarginalizableOne(anc, st, new_node) ==
    {node \in Range(st.current_nodes) :
        /\ children_of(anc.arcs, node) \subseteq st.added_nodes
        /\ node # new_node}

\* lines 466-468 / 507-509: the first node of the order starts the table
FirstTable(self, t, st, Log(_)) ==
    IF t = <<>> THEN Raised(st, "IndexError")
    ELSE IF t[1] \notin DOMAIN self.conditionals THEN Raised(st, "KeyError")
    ELSE [pc |-> IF Len(t) > 1 THEN "join" ELSE "finish",
          pos |-> 2,
          current_nodes |-> <<t[1]>>,
          added_nodes |-> {t[1]},
          folded |-> <<t[1]>>,
          summed |-> <<>>,
          node2ix |-> <<>>,
          passed |-> [ixs |-> <<>>, nodes |-> <<>>, at |-> <<>>],
          log_table |-> MapTensor(self.conditionals[t[1]], Log)]

\* lines 473-481 / 515-523: the table of t[pos] is added
JoinNext(self, t, st) ==
    LET new_node == t[st.pos]
    IN IF new_node \notin DOMAIN self.conditionals \/ new_node \notin DOMAIN self.node2parents
       THEN Raised(st, "KeyError")
       ELSE LET r == add_variable(st.log_table, st.current_nodes,
                                  self.conditionals[new_node], node2dims(self),
                                  self.node2parents[new_node])
            IN IF IsErr(r) THEN Raised(st, r.err)
               ELSE [st EXCEPT !.pc = "elim",
                               !.log_table = r,
                               !.node2ix = [n \in Range(st.current_nodes) |->
                                               IndexOf(st.current_nodes, n)],
                               !.current_nodes = Append(@, new_node),
                               !.added_nodes = @ \cup {new_node},
                               !.folded = Append(@, new_node)]

\* the summation over the first axes of the table instead of the axes of
\* the marginalizable nodes
EliminateSet_first_axes(t, st, marginalizable_nodes) ==
    LET nxt == IF st.pos + 1 > Len(t) THEN "finish" ELSE "join"
    IN IF marginalizable_nodes = {}
       THEN [st EXCEPT !.pc = nxt, !.pos = @ + 1]
       ELSE IF ~(marginalizable_nodes \subseteq DOMAIN st.node2ix) THEN Raised(st, "KeyError")
       ELSE LET ixs == [k \in 1..Cardinality(marginalizable_nodes) |->
                          k]
                r == marginalize(st.log_table, ixs)
            IN IF IsErr(r) THEN Raised(st, r.err)
               ELSE [st EXCEPT !.pc = nxt, !.pos = @ + 1,
                               !.log_table = r,
                               !.passed = [ixs |-> ixs,
                                           nodes |-> SortedSeq(marginalizable_nodes),
                                           at |-> st.current_nodes],
                               !.current_nodes =
                                   SelectSeq(@, LAMBDA n : n \notin marginalizable_nodes),
                               !.summed = @ \o SortedSeq(marginalizable_nodes)]

\* lines 484-494 / 526-537: the marginalizable nodes are summed out at the
\* positions node2ix holds, taken before new_node was appended (line 471 /
\* 512); passed records the positions, the nodes and the list at the call
EliminateSet(t, st, marginalizable_nodes) ==
    LET nxt == IF st.pos + 1 > Len(t) THEN "finish" ELSE "join"
    IN IF marginalizable_nodes = {}
       THEN [st EXCEPT !.pc = nxt, !.pos = @ + 1]
       ELSE IF ~(marginalizable_nodes \subseteq DOMAIN st.node2ix) THEN Raised(st, "KeyError")
       ELSE LET ixs == [k \in 1..Cardinality(marginalizable_nodes) |->
                          st.node2ix[SortedSeq(marginalizable_nodes)[k]]]
                r == marginalize(st.log_table, ixs)
            IN IF IsErr(r) THEN Raised(st, r.err)
               ELSE [st EXCEPT !.pc = nxt, !.pos = @ + 1,
                               !.log_table = r,
                               !.passed = [ixs |-> ixs,
                                           nodes |-> SortedSeq(marginalizable_nodes),
                                           at |-> st.current_nodes],
                               !.current_nodes =
                                   SelectSeq(@, LAMBDA n : n \notin marginalizable_nodes),
                               !.summed = @ \o SortedSeq(marginalizable_nodes)]

\* lines 455-460 / 496-500: exponentiate and put the axes in the requested order
FinishRun(st, marginal_nodes, log) ==
    LET table == IF log THEN st.log_table ELSE MapTensor(st.log_table, np_exp)
    IN Done(st, repeat_dimensions(table, st.current_nodes, marginal_nodes, NoneDims, FALSE))

get_marginals_step(self, marginal_nodes, anc, t, st) ==
    CASE st.pc = "start" -> FirstTable(self, t, st, np_log)
      [] st.pc = "join" -> JoinNext(self, t, st)
      [] st.pc = "elim" -> EliminateSet(t, st, Marginalizable(anc, st, marginal_nodes))
      [] st.pc = "finish" -> FinishRun(st, marginal_nodes, FALSE)
      [] OTHER -> st

get_marginal_step(self, node, anc, t, st) ==
    CASE st.pc = "start" -> FirstTable(self, t, st, no_warn_log)
      [] st.pc = "join" -> JoinNext(self, t, st)
      [] st.pc = "elim" -> EliminateSet(t, st, MarginalizableOne(anc, st, t[st.pos]))
      [] st.pc = "finish" -> Done(st, MapTensor(st.log_table, np_exp))
      [] OTHER -> st

\* get_marginals_new.  At the head of the loop for t[pos] the new children
\* are listed (todo), in the order the set yields them: any order
NewChildren(anc, t, st) ==
    children_of(anc.arcs, t[st.pos]) \ Range(st.current_nodes)

\* lines 426-432
FirstTableNew(self, marginal_nodes, t, st) ==
    IF Len(marginal_nodes) = 0 THEN Done(st, [scalar |-> 1])
    ELSE IF t = <<>> THEN Raised(st, "IndexError")
    ELSE IF t[1] \notin DOMAIN self.conditionals THEN Raised(st, "KeyError")
    ELSE [pc |-> "head",
          pos |-> 1,
          todo |-> <<>>,
          current_nodes |-> <<t[1]>>,
          added_nodes |-> {t[1]},
          folded |-> <<t[1]>>,
          summed |-> <<>>,
          node2ix |-> <<>>,
          passed |-> [ixs |-> <<>>, nodes |-> <<>>, at |-> <<>>],
          log_table |-> MapTensor(self.conditionals[t[1]], np_log)]

\* line 436, with the children in the order new_children
ListChildren(st, new_children) ==
    [st EXCEPT !.todo = new_children,
               !.pc = IF new_children = <<>> THEN "elim" ELSE "join"]

\* lines 438-447: the table of the next listed child is added over the
\* parents that are in current_nodes
JoinChild(self, st) ==
    LET child == Head(st.todo)
    IN IF child \notin DOMAIN self.conditionals \/ child \notin DOMAIN self.node2parents
       THEN Raised(st, "KeyError")
       ELSE
       LET remaining_parents ==
               SelectSeq(self.node2parents[child], LAMBDA q : q \in Range(st.current_nodes))
           r == add_variable(st.log_table, st.current_nodes, self.conditionals[child],
                             node2dims(self), remaining_parents)
       IN IF IsErr(r) THEN Raised(st, r.err)
          ELSE [st EXCEPT !.log_table = r,
                          !.current_nodes = Append(@, child),
                          !.added_nodes = @ \cup {child},
                          !.folded = Append(@, child),
                          !.todo = Tail(@),
                          !.pc = IF Tail(st.todo) = <<>> THEN "elim" ELSE "join"]

\* lines 450-453
EliminateNode(marginal_nodes, t, st) ==
    LET elim_node == t[st.pos]
        nxt == IF st.pos + 1 > Len(t) THEN "finish" ELSE "head"
    IN IF elim_node \in Range(marginal_nodes)
       THEN [st EXCEPT !.pc = nxt, !.pos = @ + 1]
       ELSE IF elim_node \notin Range(st.current_nodes) THEN Raised(st, "ValueError")
       ELSE LET r == marginalize(st.log_table, <<IndexOf(st.current_nodes, elim_node)>>)
            IN IF IsErr(r) THEN Raised(st, r.err)
               ELSE [st EXCEPT !.pc = nxt, !.pos = @ + 1,
                               !.log_table = r,
                               !.passed = [ixs |-> <<IndexOf(st.current_nodes, elim_node)>>,
                                           nodes |-> <<elim_node>>,
                                           at |-> st.current_nodes],
                               !.current_nodes = SelectSeq(@, LAMBDA n : n # elim_node),
                               !.summed = Append(@, elim_node)]

\* one step of get_marginals_new; new_children is used at the head only
get_marginals_new_step(self, marginal_nodes, anc, t, st, new_children) ==
    CASE st.pc = "start" -> FirstTableNew(self, marginal_nodes, t, st)
      [] st.pc = "head" -> ListChildren(st, new_children)
      [] st.pc = "join" -> JoinChild(self, st)
      [] st.pc = "elim" -> EliminateNode(marginal_nodes, t, st)
      [] st.pc = "finish" -> FinishRun(st, marginal_nodes, FALSE)
      [] OTHER -> st

Ended(st) == st.pc \in {"done", "raised"}

\* the whole call: the steps run to the end
RECURSIVE get_marginals_run(_, _, _, _, _)
get_marginals_run(self, marginal_nodes, anc, t, st) ==
    IF Ended(st) THEN st.out
    ELSE get_marginals_run(self, marginal_nodes, anc, t,
                           get_marginals_step(self, marginal_nodes, anc, t, st))

get_marginals(self, marginal_nodes, t) ==
    get_marginals_run(self, marginal_nodes,
                      ancestral_subgraph(self, Range(marginal_nodes)), t, StartRun)

RECURSIVE get_marginal_run(_, _, _, _, _)
get_marginal_run(self, node, anc, t, st) ==
    IF Ended(st) THEN st.out
    ELSE get_marginal_run(self, node, anc, t, get_marginal_step(self, node, anc, t, st))

get_marginal(self, node, t) ==
    get_marginal_run(self, node, ancestral_subgraph(self, {node}), t, StartRun)

(***************************************************************************)
(* Sampling.  One row of the sample matrix is followed; a draw is a        *)
(* choice among the values the random source can produce.  Column          *)
(* node2ix(node) of the row holds what was stored for node.                *)
(***************************************************************************)
RLess(a, b) == IsFinite(a) /\ IsFinite(b) /\ a[1] * b[2] < b[1] * a[2]

\* the sum of the first k entries of the distribution dist (a list)
RECURSIVE CumSum(_, _)
CumSum(dist, k) == IF k = 0 THEN Zero ELSE RAdd(CumSum(dist, k - 1), dist[k])

\* np.argmax(np.cumsum(dist) > u) over the u of [0, 1): the first position
\* whose cumulative sum exceeds u, and 0 when none does
InverseCdfDraws(dist) ==
    {i - 1 : i \in {j \in 1..Len(dist) :
                      /\ RLess(CumSum(dist, j - 1), CumSum(dist, j))
                      /\ RLess(CumSum(dist, j - 1), One)}}
    \cup (IF \E j \in 1..Len(dist) : ~RLess(CumSum(dist, j), One) /\ IsFinite(CumSum(dist, j))
          THEN {} ELSE {0})

\* the draw if the probabilities were ignored
ChoiceDraws_uniform(alphabet, dist) == [vals |-> Range(alphabet)]

\* np.random.choice(alphabet, p=dist)
ChoiceDraws(alphabet, dist) ==
    IF Len(dist) # Len(alphabet) \/ CumSum(dist, Len(dist)) # One
    THEN Err("ValueError")
    ELSE [vals |-> {alphabet[i] : i \in {j \in 1..Len(dist) : dist[j] # Zero}}]

\* lines 238-251: the values sample can store for node in a row whose
\* earlier columns are filled
sample_node(self, node, row) ==
    LET parents == self.node2parents[node]
        cond == self.conditionals[node]
        parent_vals == [i \in 1..Len(parents) |-> row[node2ix(self, parents[i])]]
    IN IF Len(parents) = 0
       THEN IF Rank(cond) # 1 THEN Err("ValueError")
            ELSE ChoiceDraws(self.node_alphabets[node],
                             [i \in 1..cond.shape[1] |-> cond.data[<<i - 1>>]])
       ELSE IF Rank(cond) # Len(parents) + 1 THEN Err("IndexError")
       ELSE IF \E i \in 1..Len(parents) : parent_vals[i] \notin 0..(cond.shape[i] - 1)
            THEN Err("IndexError")
       ELSE [vals |-> InverseCdfDraws(
                        [v \in 1..cond.shape[Rank(cond)] |->
                            cond.data[Append(parent_vals, v - 1)]])]

RECURSIVE SampleFrom(_, _, _, _)
SampleFrom(self, t, pos, row) ==
    IF pos > Len(t) THEN {[row |-> row]}
    ELSE LET d == sample_node(self, t[pos], row)
         IN IF IsErr(d) THEN {d}
            ELSE UNION {SampleFrom(self, t, pos + 1,
                                   [c \in DOMAIN row |->
                                       IF c = node2ix(self, t[pos]) THEN v ELSE row[c]])
                        : v \in d.vals}

\* sample(nsamples): the outcomes of one row under topological order t, each
\* a record [row] or an error
sample(self, t) ==
    SampleFrom(self, t, 1, [c \in DOMAIN self.node_list |-> 0])

(***************************************************************************)
(* Inputs: the networks, tables and datasets the operations are applied to *)
(***************************************************************************)
NumNodes == 3
NumSeeds == 2
MaxRows == 2
MaxCalls == 3

Dim(n) == IF n % 3 = 2 THEN 3 ELSE 2

\* alphabet family 1: every alphabet is 0..k-1; family 2: the alphabets of
\* the odd nodes hold values that are not their positions
Alphabet(fam, n) ==
    [i \in 1..Dim(n) |-> IF fam = 2 /\ n % 2 = 1 THEN 10 * (n + 1) + i - 1 ELSE i - 1]

AlphabetsOf(fam, nodes) == [n \in nodes |-> Alphabet(fam, n)]

\* a valid table for node over the given parents: small integer weights,
\* normalised along the last axis; some entries are zero
Weight(seed, node, ix) ==
    ((seed + (2 * node) + SeqSum([j \in 1..Len(ix) |-> (j + 1) * ix[j]])) % 4)
    + (IF ix[Len(ix)] = 0 THEN 1 ELSE 0)

MkCPT(node, parents, alphabets, seed) ==
    LET shape == [i \in 1..(Len(parents) + 1) |->
                    Len(alphabets[Append(parents, node)[i]])]
        k == Len(shape)
        RowTotal(ix) == SeqSum([v \in 1..shape[k] |->
                                  Weight(seed, node, [ix EXCEPT ![k] = v - 1])])
    IN Tensor(shape, LAMBDA ix : Rat(Weight(seed, node, ix), RowTotal(ix)))

ForwardArcs(nodes) == {a \in nodes \X nodes : a[1] < a[2]}

\* the parent lists of an arc set, ascending or descending
ParentLists(nodes, arcs, rev) ==
    [n \in nodes |->
        LET ps == SortedSeq(parents_of(arcs, n))
        IN IF rev THEN [i \in 1..Len(ps) |-> ps[Len(ps) + 1 - i]] ELSE ps]

ConditionalsOf(nodes, node2parents, alphabets, seed) ==
    [n \in nodes |-> MkCPT(n, node2parents[n], alphabets, seed)]

\* a dataset of len rows of codes over the nodes 0..(n - 1)
Dataset(seed, n, len) ==
    [j \in 1..len |-> [k \in 1..n |-> (seed + j * k) % Dim(k - 1)]]

(***************************************************************************)
(* The network objects.  nets[i] is an object whose conditionals field is  *)
(* the address in heap of its dict of tables; last records the last call.  *)
(***************************************************************************)
DerefIn(ns, hp, i) == [ns[i] EXCEPT !.conditionals = hp[ns[i].conditionals]]

Deref(i) == DerefIn(nets, heap, i)

Store(d) ==
    /\ nets' = Append(nets, [d EXCEPT !.conditionals = Len(heap) + 1])
    /\ heap' = Append(heap, d.conditionals)

\* a call that returns network d, or raises
Return(d, call) ==
    IF IsErr(d)
    THEN /\ UNCHANGED <<nets, heap>>
         /\ last' = call @@ [res |-> 0, err |-> d.err, n |-> last.n + 1]
    ELSE /\ Store(d)
         /\ last' = call @@ [res |-> Len(nets) + 1, err |-> "", n |-> last.n + 1]

SpecNodes == {0, 1}
SpecSeeds == {1, 2}

Init ==
    /\ nets = <<>>
    /\ heap = <<>>
    /\ last = [op |-> "none", n |-> 0]
    /\ ve = <<>>

\* DiscreteDAG(nodes, arcs, conditionals, node2parents, node_alphabets) with
\* arcs, parent lists and tables each supplied by the caller
Construct ==
    /\ last.n < MaxCalls
    /\ \E arcs \in SUBSET ForwardArcs(SpecNodes), parc \in SUBSET ForwardArcs(SpecNodes),
          carc \in SUBSET ForwardArcs(SpecNodes), fam \in {1, 2} :
         LET node2parents == ParentLists(SpecNodes, parc, FALSE)
             alphabets == AlphabetsOf(fam, SpecNodes)
             conditionals == ConditionalsOf(SpecNodes, ParentLists(SpecNodes, carc, FALSE),
                                            alphabets, 1)
         IN Return(DiscreteDAG(SortedSeq(SpecNodes), arcs, conditionals,
                               node2parents, alphabets),
                   [op |-> "init", self |-> 0])
    /\ UNCHANGED ve

\* DiscreteDAG.fit(dag, data, node2parents, node_alphabets, method) on a
\* graph over the same nodes; the parent lists and the alphabets are given
\* or left to their defaults
Fit ==
    /\ last.n < MaxCalls
    /\ \E arcs \in SUBSET ForwardArcs(SpecNodes), parc \in SUBSET ForwardArcs(SpecNodes),
          given \in BOOLEAN, fam \in {0, 1}, len \in {0, 1},
          method \in {"mle", "add_one_mle"} :
         Return(fit([nodes |-> SpecNodes, arcs |-> arcs],
                    Dataset(1, Cardinality(SpecNodes), len),
                    IF given THEN Some(ParentLists(SpecNodes, parc, FALSE)) ELSE None,
                    IF fam = 0 THEN None ELSE Some(AlphabetsOf(fam, SpecNodes)),
                    method),
                [op |-> "fit", self |-> 0])
    /\ UNCHANGED ve

\* what copy() would return if it made a new object around the same dict
copy_shallow(i) == [net |-> nets[i], heap |-> heap]

\* copy(): deepcopy(self), a new object with its own dict of tables.
\* Returns the new object and the heap that holds its dict
copy(i) ==
    [net |-> [nets[i] EXCEPT !.conditionals = Len(heap) + 1],
     heap |-> Append(heap, heap[nets[i].conditionals])]

Copy ==
    /\ last.n < MaxCalls
    /\ \E i \in DOMAIN nets :
         /\ nets' = Append(nets, copy(i).net)
         /\ heap' = copy(i).heap
         /\ last' = [op |-> "copy", self |-> i, res |-> Len(nets) + 1, err |-> "",
                     n |-> last.n + 1]
    /\ UNCHANGED ve

\* the tables a caller may hand to set_conditional: a valid table for the
\* node, or one shaped for a node without parents and one more value
CptChoices(self, node) ==
    {MkCPT(node, self.node2parents[node], self.node_alphabets, s) : s \in SpecSeeds}
    \cup {Tensor(<<Dim(node) + 1>>, LAMBDA ix : Rat(1, Dim(node) + 1))}

\* set_conditional(node, cpt): the entry of the object's own dict is rebound
set_conditional(i, node, cpt) ==
    [heap EXCEPT ![nets[i].conditionals] = (node :> cpt) @@ @]

SetConditional ==
    /\ last.n < MaxCalls
    /\ \E i \in DOMAIN nets : \E node \in nets[i].nodes :
       \E cpt \in CptChoices(nets[i], node) :
         /\ heap' = set_conditional(i, node, cpt)
         /\ last' = [op |-> "set_conditional", self |-> i, node |-> node,
                     res |-> 0, err |-> "", n |-> last.n + 1]
    /\ UNCHANGED <<nets, ve>>

HardIntervention ==
    /\ last.n < MaxCalls
    /\ \E i \in DOMAIN nets : \E node \in nets[i].nodes :
       \E value \in Range(nets[i].node_alphabets[node]) :
         Return(get_hard_interventional_dag(Deref(i), node, value),
                [op |-> "hard", self |-> i, node |-> node, value |-> value])
    /\ UNCHANGED ve

ReturnPair(r, call) ==
    IF IsErr(r) THEN Return(r, call)
    ELSE Return(r.dag, call @@ [labels |-> r.labels])

MarginalDagNode ==
    /\ last.n < MaxCalls
    /\ \E i \in DOMAIN nets : \E node \in nets[i].nodes : \E relabel \in BOOLEAN :
         ReturnPair(get_marginal_dag_node(Deref(i), node, relabel),
                    [op |-> "marginal_node", self |-> i, node |-> node,
                     relabel |-> relabel])
    /\ UNCHANGED ve

MarginalDag ==
    /\ last.n < MaxCalls
    /\ \E i \in DOMAIN nets : \E S \in SUBSET nets[i].nodes : \E lst \in Perms(S) :
       \E relabel \in BOOLEAN :
         ReturnPair(get_marginal_dag(Deref(i), lst, relabel),
                    [op |-> "marginal_dag", self |-> i, list |-> lst,
                     relabel |-> relabel])
    /\ UNCHANGED ve

Next ==
    \/ Construct
    \/ Fit
    \/ Copy
    \/ SetConditional
    \/ HardIntervention
    \/ MarginalDagNode
    \/ MarginalDag

Spec == Init /\ [][Next]_vars

ArcsOfParents(node2parents) ==
    UNION {{<<p, n>> : p \in Range(node2parents[n])} : n \in DOMAIN node2parents}

\* C2: in every network object the arc set is the one derived from the
\* parent lists: arcs = {(p, n) : n in node2parents, p in node2parents[n]}
C2_ArcsDerived ==
    \A i \in DOMAIN nets : nets[i].arcs = ArcsOfParents(nets[i].node2parents)

\* C3: in every network object each node's table has the shape given by the
\* sizes of its parents' alphabets, in parent-list order, then its own
C3_ShapeInvariant ==
    \A i \in DOMAIN nets : \A node \in DOMAIN nets[i].node2parents :
        Deref(i).conditionals[node].shape
            = ExpectedShape(nets[i].node2parents, nets[i].node_alphabets, node)

\* C4: every call leaves every existing object's nodes, arcs, parent lists
\* and alphabets as they were, and leaves each of its tables as it was unless
\* the call is set_conditional on that very object for that very node
C4_Frame ==
    [][\A i \in DOMAIN nets :
          /\ i \in DOMAIN nets'
          /\ [DerefIn(nets', heap', i) EXCEPT !.conditionals = <<>>]
                = [Deref(i) EXCEPT !.conditionals = <<>>]
          /\ DOMAIN DerefIn(nets', heap', i).conditionals = DOMAIN Deref(i).conditionals
          /\ \A node \in DOMAIN Deref(i).conditionals :
                \/ DerefIn(nets', heap', i).conditionals[node] = Deref(i).conditionals[node]
                \/ /\ last'.op = "set_conditional"
                   /\ last'.self = i
                   /\ last'.node = node]_vars

\* a set_conditional has just changed a table of one object while another
\* object with the same nodes, arcs, parent lists and alphabets (a copy or
\* its source) keeps a different table for that node
C4_Witness ==
    /\ last.op = "set_conditional"
    /\ \E j \in DOMAIN nets :
         /\ j # last.self
         /\ [Deref(j) EXCEPT !.conditionals = <<>>]
               = [Deref(last.self) EXCEPT !.conditionals = <<>>]
         /\ Deref(j).conditionals[last.node] # Deref(last.self).conditionals[last.node]
         /\ \A node \in nets[j].nodes \ {last.node} :
               Deref(j).conditionals[node] = Deref(last.self).conditionals[node]

(***************************************************************************)
(* The two elimination strategies run on the same network, targets and     *)
(* topological order: get_marginals first, then get_marginals_new.         *)
(***************************************************************************)
Nodes == 0..(NumNodes - 1)

\* the networks built from an arc set: consistent parent lists, valid tables
Network(nodes, arcs, rev, seed, fam) ==
    LET node2parents == ParentLists(nodes, arcs, rev)
        alphabets == AlphabetsOf(fam, nodes)
    IN DiscreteDAG(SortedSeq(nodes), arcs,
                   ConditionalsOf(nodes, node2parents, alphabets, seed),
                   node2parents, alphabets)

\* the lists of distinct nodes, in every order
DistinctLists(nodes) == UNION {Perms(S) : S \in SUBSET nodes}

InitVE ==
    /\ nets = <<>>
    /\ heap = <<>>
    /\ last = [op |-> "none", n |-> 0]
    /\ \E arcs \in SUBSET ForwardArcs(Nodes), rev \in BOOLEAN, seed \in 1..NumSeeds,
          marginal_nodes \in DistinctLists(Nodes) :
         LET self == Network(Nodes, arcs, rev, seed, 1)
             anc == ancestral_subgraph(self, Range(marginal_nodes))
         IN \E t \in TopologicalSorts(anc) :
              ve = [self |-> self, marginal_nodes |-> marginal_nodes, anc |-> anc,
                    t |-> t, gm |-> StartRun, gn |-> StartRun]

GetMarginalsStep ==
    /\ ~Ended(ve.gm)
    /\ ve' = [ve EXCEPT !.gm = get_marginals_step(ve.self, ve.marginal_nodes,
                                                  ve.anc, ve.t, ve.gm)]
    /\ UNCHANGED <<nets, heap, last>>

GetMarginalsNewStep ==
    /\ Ended(ve.gm)
    /\ ~Ended(ve.gn)
    /\ \E new_children \in
            IF ve.gn.pc = "head" THEN Perms(NewChildren(ve.anc, ve.t, ve.gn)) ELSE {<<>>} :
         ve' = [ve EXCEPT !.gn = get_marginals_new_step(ve.self, ve.marginal_nodes,
                                                       ve.anc, ve.t, ve.gn, new_children)]
    /\ UNCHANGED <<nets, heap, last>>

NextVE ==
    \/ GetMarginalsStep
    \/ GetMarginalsNewStep

SpecVE == InitVE /\ [][NextVE]_vars

\* C1: when both runs have ended they ended the same way (both returned or
\* both raised), and tables returned are equal: same axes in the requested
\* order, equal entries
C1_SameOutcome ==
    (Ended(ve.gm) /\ Ended(ve.gn)) =>
        /\ ve.gm.pc = ve.gn.pc
        /\ ve.gm.pc = "done" => ve.gm.out = ve.gn.out


(***************************************************************************)
(* Frame: one constructed network, then copies, interventions, marginal    *)
(* networks and set_conditional calls, MaxEdits calls deep.                *)
(***************************************************************************)
MaxEdits == 2

\* one network object d, returned by the call op, with calls calls left
Holding(d, op, calls) ==
    /\ ~IsErr(d)
    /\ nets = <<[d EXCEPT !.conditionals = 1]>>
    /\ heap = <<d.conditionals>>
    /\ last = [op |-> op, self |-> 0, res |-> 1, err |-> "", n |-> MaxCalls - calls]

InitFrame ==
    /\ ve = <<>>
    /\ \E arcs \in SUBSET ForwardArcs(SpecNodes), parc \in SUBSET ForwardArcs(SpecNodes),
          fam \in {1, 2} :
         LET node2parents == ParentLists(SpecNodes, parc, FALSE)
             alphabets == AlphabetsOf(fam, SpecNodes)
         IN Holding(DiscreteDAG(SortedSeq(SpecNodes), arcs,
                                ConditionalsOf(SpecNodes, node2parents, alphabets, 1),
                                node2parents, alphabets),
                    "init", MaxEdits)

NextFrame ==
    \/ Copy
    \/ SetConditional
    \/ HardIntervention
    \/ MarginalDag

SpecFrame == InitFrame /\ [][NextFrame]_vars

(***************************************************************************)
(* Edits: one network with consistent arcs and parent lists and valid      *)
(* tables, then one intervention or marginalization.  The networks are     *)
(* those over Nodes, and those over four nodes whose arcs all enter the    *)
(* last two nodes, where a removed node has two parents and its child has  *)
(* another parent.                                                         *)
(***************************************************************************)
WideNodes == {0, 1, 2, 3}

WideArcs == {a \in ForwardArcs(WideNodes) : a[2] >= 2}

Family(seed) == 1 + (seed % 2)

InitEdit ==
    /\ ve = <<>>
    /\ \E seed \in 1..NumSeeds, rev \in BOOLEAN :
         \/ \E arcs \in SUBSET ForwardArcs(Nodes) :
              Holding(Network(Nodes, arcs, rev, seed, Family(seed)), "init", 1)
         \/ \E arcs \in SUBSET WideArcs :
              Holding(Network(WideNodes, arcs, rev, seed, Family(seed)), "init", 1)

NextEdit ==
    \/ HardIntervention
    \/ MarginalDagNode
    \/ MarginalDag

SpecEdit == InitEdit /\ [][NextEdit]_vars

PointMass(alphabet, value) ==
    Tensor(<<Len(alphabet)>>, LAMBDA ix :
        IF alphabet[ix[1] + 1] = value THEN One ELSE Zero)

\* C5: the network returned by get_hard_interventional_dag(node, value) has
\* an empty parent list for node, no arc into node, the point mass at value's
\* alphabet position as node's table, and everything else as in the source
C5_HardIntervention ==
    (last.op = "hard" /\ last.res # 0) =>
        LET s == Deref(last.self)
            r == Deref(last.res)
            node == last.node
        IN /\ r.nodes = s.nodes
           /\ r.node2parents[node] = <<>>
           /\ \A a \in r.arcs : a[2] # node
           /\ r.conditionals[node] = PointMass(s.node_alphabets[node], last.value)
           /\ r.node_alphabets = s.node_alphabets
           /\ DOMAIN r.node2parents = DOMAIN s.node2parents
           /\ \A m \in s.nodes \ {node} :
                /\ r.conditionals[m] = s.conditionals[m]
                /\ r.node2parents[m] = s.node2parents[m]
           /\ {a \in r.arcs : a[2] # node} = {a \in s.arcs : a[2] # node}

\* an intervention on a node that had a parent and a child, at a value that
\* is neither the first of the alphabet nor its own position
C5_Witness ==
    /\ last.op = "hard"
    /\ last.res # 0
    /\ nets[last.self].node2parents[last.node] # <<>>
    /\ children_of(nets[last.self].arcs, last.node) # {}
    /\ nets[last.self].node_alphabets[last.node][1] # last.value
    /\ last.value >= Len(nets[last.self].node_alphabets[last.node])
    /\ nets[last.res].arcs # nets[last.self].arcs


\* C6: in the network returned by get_hard_interventional_dag(node, v),
\* get_marginal(node) returns the point mass at v under every topological
\* order, and every row that sample can return holds v in node's column
C6_InterventionCorrect ==
    (last.op = "hard" /\ last.res # 0) =>
        LET r == Deref(last.res)
            node == last.node
        IN /\ \A t \in TopologicalSorts(ancestral_subgraph(r, {node})) :
                get_marginal(r, node, t) = PointMass(r.node_alphabets[node], last.value)
           /\ \A t \in TopologicalSorts(r) : \A o \in sample(r, t) :
                ~IsErr(o) => o.row[node2ix(r, node)] = last.value

\* an intervention at a value other than 0 on a node that had a parent with
\* more than one likely value, after which sample returns rows
C6_Witness ==
    /\ last.op = "hard"
    /\ last.res # 0
    /\ last.value # 0
    /\ nets[last.self].node2parents[last.node] # <<>>
    /\ \E t \in TopologicalSorts(nets[last.res]) :
         \E o, q \in sample(Deref(last.res), t) :
            /\ ~IsErr(o) /\ ~IsErr(q) /\ o.row # q.row
            /\ o.row[node2ix(nets[last.res], last.node)] = last.value

MapSeq(s, f) == [i \in DOMAIN s |-> f[s[i]]]

\* C7: after _get_marginal_dag_node removes m, each child of m has its old
\* parents without m followed by m's parents it did not have, every other
\* surviving node keeps its parent list, m is gone from the nodes, the arcs
\* and the parent lists, and every new parent of a child has its arc; with
\* relabel the surviving nodes are read through the returned labels
C7_MarginalDagNode ==
    (last.op = "marginal_node" /\ last.res # 0) =>
        LET s == Deref(last.self)
            r == Deref(last.res)
            m == last.node
            L == last.labels
            m_children == children_of(s.arcs, m)
            Expected(c) ==
                SelectSeq(s.node2parents[c], LAMBDA p : p # m)
                \o SelectSeq(s.node2parents[m],
                             LAMBDA p : p \notin Range(s.node2parents[c]))
        IN /\ DOMAIN L = s.nodes \ {m}
           /\ r.nodes = {L[n] : n \in s.nodes \ {m}}
           /\ DOMAIN r.node2parents = r.nodes
           /\ \A c \in m_children : r.node2parents[L[c]] = MapSeq(Expected(c), L)
           /\ \A n \in s.nodes \ ({m} \cup m_children) :
                r.node2parents[L[n]] = MapSeq(s.node2parents[n], L)
           /\ \A a \in r.arcs : a[1] \in r.nodes /\ a[2] \in r.nodes
           /\ \A n \in r.nodes : Range(r.node2parents[n]) \subseteq r.nodes
           /\ ~last.relabel =>
                /\ m \notin r.nodes
                /\ \A a \in r.arcs : a[1] # m /\ a[2] # m
                /\ \A n \in r.nodes : m \notin Range(r.node2parents[n])
           /\ \A c \in m_children : \A p \in Range(Expected(c)) :
                <<L[p], L[c]>> \in r.arcs

\* the removed node has a parent its child did not have, and the child has
\* another parent that it keeps
C7_Witness ==
    /\ last.op = "marginal_node"
    /\ last.res # 0
    /\ \E c \in children_of(nets[last.self].arcs, last.node) :
         /\ Range(nets[last.self].node2parents[c]) \ {last.node} # {}
         /\ Range(nets[last.self].node2parents[last.node])
               \ Range(nets[last.self].node2parents[c]) # {}
         /\ Len(nets[last.res].node2parents[last.labels[c]]) >= 2

\* C8: get_marginal_dag(nodes, relabel=True) on a network with nodes 0..n-1
\* returns a map whose domain is the surviving nodes, which is an
\* order-preserving bijection onto 0..k-1, whose image is the node set of the
\* returned network, and under which each surviving node's parent list,
\* alphabet and table are stored as in the network returned without relabel
C8_RelabelMap ==
    (/\ last.op = "marginal_dag"
     /\ last.relabel
     /\ last.res # 0
     /\ nets[last.self].nodes = 0..(Cardinality(nets[last.self].nodes) - 1)) =>
        LET s == Deref(last.self)
            r == Deref(last.res)
            L == last.labels
            survivors == s.nodes \ Range(last.list)
            u == get_marginal_dag(s, last.list, FALSE).dag
        IN /\ DOMAIN L = survivors
           /\ {L[x] : x \in survivors} = 0..(Cardinality(survivors) - 1)
           /\ \A x, y \in survivors : x < y => L[x] < L[y]
           /\ r.nodes = {L[x] : x \in survivors}
           /\ \A x \in survivors :
                /\ r.node_alphabets[L[x]] = s.node_alphabets[x]
                /\ r.conditionals[L[x]] = u.conditionals[x]
                /\ r.node2parents[L[x]] = MapSeq(u.node2parents[x], L)

\* two nodes were removed, the lower one first, so that the second was
\* removed under a label that is not its own, and a survivor changed label
C8_Witness ==
    /\ last.op = "marginal_dag"
    /\ last.relabel
    /\ last.res # 0
    /\ Len(last.list) = 2
    /\ last.list[2] < last.list[1]
    /\ \E x \in DOMAIN last.labels :
         /\ last.labels[x] # x
         /\ nets[last.res].node2parents[last.labels[x]] # <<>>


\* the assignments of a value position to every node
Assignments(self) ==
    {a \in [self.nodes ->
              0..(MaxOf({1} \cup {Len(self.node_alphabets[n]) : n \in self.nodes}) - 1)] :
        \A n \in self.nodes : a[n] < Len(self.node_alphabets[n])}

RECURSIVE RProdSet(_, _)
RProdSet(S, f) ==
    IF S = {} THEN One
    ELSE LET x == CHOOSE y \in S : TRUE
         IN RMul(f[x], RProdSet(S \ {x}, f))

\* the probability the network gives to assignment a: the product of the
\* table entries of the nodes
JointProb(self, a) ==
    RProdSet(self.nodes,
             [n \in self.nodes |->
                self.conditionals[n].data[MapSeq(Append(self.node2parents[n], n), a)]])

\* the joint distribution of the network summed over the nodes not in targets
JointMarginal(self, targets) ==
    Tensor([i \in 1..Len(targets) |-> Len(self.node_alphabets[targets[i]])],
           LAMBDA ix :
              RSumSet({a \in Assignments(self) :
                          \A i \in 1..Len(targets) : a[targets[i]] = ix[i]},
                      [a \in Assignments(self) |-> JointProb(self, a)]))

IsMiddle(g, node) == \E t \in TopologicalSorts(g) : t[2] = node

\* C9: for a 3-node network and a node that can stand in the middle of its
\* topological order, get_marginal_dag([node]) returns a network in which
\* get_marginals over the two remaining nodes, in either order and under
\* every topological order, is the original joint summed over the node
C9_MarginalizationInvariance ==
    (/\ last.op = "marginal_dag"
     /\ Cardinality(nets[last.self].nodes) = 3
     /\ Len(last.list) = 1
     /\ IsMiddle(nets[last.self], last.list[1])) =>
        /\ last.res # 0
        /\ LET s == Deref(last.self)
               r == Deref(last.res)
               L == last.labels
           IN \A targets \in Perms(s.nodes \ {last.list[1]}) :
                \A t \in TopologicalSorts(ancestral_subgraph(r, Range(MapSeq(targets, L)))) :
                   get_marginals(r, MapSeq(targets, L), t) = JointMarginal(s, targets)

\* the middle node of the chain 0 -> 1 -> 2 was removed with relabel, and
\* the two remaining nodes are dependent in the returned network
C9_Witness ==
    /\ last.op = "marginal_dag"
    /\ last.res # 0
    /\ last.relabel
    /\ last.list = <<1>>
    /\ nets[last.self].arcs = {<<0, 1>>, <<1, 2>>}
    /\ nets[last.res].arcs = {<<0, 1>>}
    /\ \E v \in {0, 1} :
         Deref(last.res).conditionals[1].data[<<0, v>>]
            # Deref(last.res).conditionals[1].data[<<1, v>>]

(***************************************************************************)
(* Fitted networks: one network returned by fit over Nodes, then one       *)
(* intervention or marginalization.                                        *)
(***************************************************************************)
InitFit ==
    /\ ve = <<>>
    /\ \E arcs \in SUBSET ForwardArcs(Nodes), seed \in 1..NumSeeds, len \in 0..MaxRows,
          fam \in {0, 1, 2}, method \in {"mle", "add_one_mle"} :
         Holding(fit([nodes |-> Nodes, arcs |-> arcs],
                     Dataset(seed, NumNodes, len),
                     None,
                     IF fam = 0 THEN None ELSE Some(AlphabetsOf(fam, Nodes)),
                     method),
                 "fit", 1)

NextFit ==
    \/ HardIntervention
    \/ MarginalDag

SpecFit == InitFit /\ [][NextFit]_vars

RowsSumToOne(cpt) ==
    \A ix \in Idx(cpt.shape) :
        RSumSet(0..(cpt.shape[Rank(cpt)] - 1),
                [v \in 0..(cpt.shape[Rank(cpt)] - 1) |->
                    cpt.data[[ix EXCEPT ![Rank(cpt)] = v]]]) = One

\* C10: in a fitted network and in every network derived from it, for every
\* node and every assignment of its parents the table entries sum to 1
C10_FittedRowsSumToOne ==
    \A i \in DOMAIN nets : \A node \in nets[i].nodes :
        RowsSumToOne(Deref(i).conditionals[node])

(***************************************************************************)
(* DiscreteDAG.get_conditional(marginal_nodes, cond_nodes, method).  The   *)
(* axis name "d<node>" is the node label; RName(node) is "r<node>", the    *)
(* second axis of a node that is in both lists.  The requests drawn are    *)
(* over at least one node.                                                 *)
(***************************************************************************)
RName(node) == -2 - node

np_eye(n) == Tensor(<<n, n>>, LAMBDA ix : IF ix[1] = ix[2] THEN One ELSE Zero)

\* line 665
NoRepeats(marginal_nodes, cond_nodes) ==
    SelectSeq(marginal_nodes, LAMBDA n : n \notin Range(cond_nodes))

\* line 668
AllNodes(marginal_nodes, cond_nodes) == NoRepeats(marginal_nodes, cond_nodes) \o cond_nodes

\* line 685
marginal_alphabet_size(self, no_repeats) ==
    LET RECURSIVE P(_)
        P(i) == IF i > Len(no_repeats) THEN 1 ELSE node2dims(self)[no_repeats[i]] * P(i + 1)
    IN P(1)

\* lines 684-688 without the overwrite
ZeroSlices_kept(conditional, cond_log_marginal, k, size) == conditional

\* lines 684-688: the slices of the conditioning assignments whose log
\* marginal is -inf are overwritten with 1/size
ZeroSlices(conditional, cond_log_marginal, k, size) ==
    [shape |-> conditional.shape,
     data |-> [ix \in DOMAIN conditional.data |->
                 IF cond_log_marginal.data[SubSeq(ix, k + 1, Len(ix))] = NegInf
                 THEN Rat(1, size)
                 ELSE conditional.data[ix]]]

\* lines 35-69: the table over the marginal nodes that are not conditioned
\* on gets the axis r<node> of a node in both lists and is kept where that
\* axis holds the conditioning value
add_repeated_nodes_marginal(conditional, marginal_nodes, cond_nodes, dims, cond_vals) ==
    LET no_repeats == NoRepeats(marginal_nodes, cond_nodes)
        marginal_nodes_repeat == SelectSeq(marginal_nodes, LAMBDA n : n \in Range(cond_nodes))
        end_dims == [i \in 1..Len(marginal_nodes) |->
                        IF marginal_nodes[i] \in Range(no_repeats)
                        THEN marginal_nodes[i] ELSE RName(marginal_nodes[i])]
        repeats == [x \in {RName(n) : n \in Range(marginal_nodes_repeat)} |-> dims[-2 - x]]
        rep == einops_repeat(conditional, no_repeats, end_dims, repeats)
    IN IF IsErr(rep) THEN rep
       ELSE IF Len(marginal_nodes_repeat) > 1 THEN Err("NotImplementedError")
       ELSE IF marginal_nodes_repeat = <<>> THEN Err("IndexError")
       ELSE LET rep_node == marginal_nodes_repeat[1]
                cond_repeat_ix == IndexOf(cond_nodes, rep_node)
                arange == Tensor(<<dims[rep_node]>>,
                                 LAMBDA ix : IF ix[1] = cond_vals[cond_repeat_ix]
                                             THEN One ELSE Zero)
                ones == einops_repeat(arange, <<RName(rep_node)>>, end_dims,
                                      [n \in Range(marginal_nodes) \ {rep_node} |-> dims[n]])
            IN IF IsErr(ones) THEN ones
               ELSE [shape |-> rep.shape,
                     data |-> [ix \in DOMAIN rep.data |-> RMul(rep.data[ix], ones.data[ix])]]

\* lines 72-105: a node in both lists gets the axes r<node> (marginal) and
\* d<node> (conditioning), and the table is kept where the two agree
add_repeated_nodes_conditional(conditional, marginal_nodes, cond_nodes, dims) ==
    LET no_repeats == NoRepeats(marginal_nodes, cond_nodes)
        all_nodes == AllNodes(marginal_nodes, cond_nodes)
        marginal_nodes_repeat == SelectSeq(marginal_nodes, LAMBDA n : n \in Range(cond_nodes))
        end_dims == [i \in 1..Len(marginal_nodes) |->
                        IF marginal_nodes[i] \in Range(no_repeats)
                        THEN marginal_nodes[i] ELSE RName(marginal_nodes[i])] \o cond_nodes
        repeats == [x \in {RName(n) : n \in Range(marginal_nodes_repeat)} |-> dims[-2 - x]]
        rep == einops_repeat(conditional, all_nodes, end_dims, repeats)
    IN IF IsErr(rep) THEN rep
       ELSE IF Len(marginal_nodes_repeat) > 1 THEN Err("NotImplementedError")
       ELSE IF marginal_nodes_repeat = <<>> THEN Err("IndexError")
       ELSE LET rep_node == marginal_nodes_repeat[1]
                ones == einops_repeat(np_eye(dims[rep_node]),
                                      <<rep_node, RName(rep_node)>>, end_dims,
                                      [n \in Range(all_nodes) \ {rep_node} |-> dims[n]])
            IN IF IsErr(ones) THEN ones
               ELSE [shape |-> rep.shape,
                     data |-> [ix \in DOMAIN rep.data |-> RMul(rep.data[ix], ones.data[ix])]]

\* lines 691-711 are the body of add_repeated_nodes_conditional, written
\* out again inside the method
RepeatedNodes(self, marginal_nodes, cond_nodes, conditional) ==
    add_repeated_nodes_conditional(conditional, marginal_nodes, cond_nodes, node2dims(self))

\* lines 675-713, from the log marginal over all_nodes that line 671 or 673
\* returned
DiscreteDAG_get_conditional(self, marginal_nodes, cond_nodes, full_log_marginal) ==
    IF ~IsTensor(full_log_marginal) THEN full_log_marginal
    ELSE
    LET no_repeats == NoRepeats(marginal_nodes, cond_nodes)
        k == Len(no_repeats)
        cond_log_marginal == marginalize(full_log_marginal, [i \in 1..k |-> i])
    IN IF IsErr(cond_log_marginal) THEN cond_log_marginal
       ELSE
       LET log_conditional ==
               [shape |-> full_log_marginal.shape,
                data |-> [ix \in DOMAIN full_log_marginal.data |->
                            LogSub(full_log_marginal.data[ix],
                                   cond_log_marginal.data[SubSeq(ix, k + 1, Len(ix))])]]
           conditional ==
               ZeroSlices(MapTensor(log_conditional, np_exp), cond_log_marginal, k,
                          marginal_alphabet_size(self, no_repeats))
       IN IF Len(marginal_nodes) # Len(no_repeats)
          THEN RepeatedNodes(self, marginal_nodes, cond_nodes, conditional)
          ELSE conditional


(***************************************************************************)
(* Conditional requests: one network, one call of get_conditional.  The    *)
(* marginal over all_nodes is computed step by step with log=True, by      *)
(* get_marginals_new (method "new", the default) or get_marginals, and the *)
(* call then returns or raises.                                            *)
(***************************************************************************)
Pending == [pending |-> TRUE]

CondNodes == {0, 1, 2}

InitCond ==
    /\ nets = <<>>
    /\ heap = <<>>
    /\ last = [op |-> "none", n |-> 0]
    /\ \E arcs \in SUBSET ForwardArcs(CondNodes), rev \in BOOLEAN, seed \in 1..NumSeeds,
          marginal_nodes \in DistinctLists(CondNodes), cond_nodes \in DistinctLists(CondNodes),
          method \in {"new", "old"} :
         LET self == Network(CondNodes, arcs, rev, seed, 1)
             all_nodes == AllNodes(marginal_nodes, cond_nodes)
             anc == ancestral_subgraph(self, Range(all_nodes))
         IN /\ all_nodes # <<>>
            /\ \E t \in TopologicalSorts(anc) :
                 ve = [self |-> self, marginal_nodes |-> marginal_nodes,
                       cond_nodes |-> cond_nodes, all_nodes |-> all_nodes,
                       method |-> method, anc |-> anc, t |-> t,
                       run |-> StartRun, out |-> Pending]

\* line 673: a step of get_marginals(all_nodes, log=True)
CondMarginalsStep ==
    /\ ve.method = "old"
    /\ ~Ended(ve.run)
    /\ ve' = [ve EXCEPT !.run =
                 IF ve.run.pc = "finish" THEN FinishRun(ve.run, ve.all_nodes, TRUE)
                 ELSE get_marginals_step(ve.self, ve.all_nodes, ve.anc, ve.t, ve.run)]
    /\ UNCHANGED <<nets, heap, last>>

\* line 671: a step of get_marginals_new(all_nodes, log=True)
CondMarginalsNewStep ==
    /\ ve.method = "new"
    /\ ~Ended(ve.run)
    /\ \E new_children \in
            IF ve.run.pc = "head" THEN Perms(NewChildren(ve.anc, ve.t, ve.run)) ELSE {<<>>} :
         ve' = [ve EXCEPT !.run =
                   IF ve.run.pc = "finish" THEN FinishRun(ve.run, ve.all_nodes, TRUE)
                   ELSE get_marginals_new_step(ve.self, ve.all_nodes, ve.anc, ve.t,
                                               ve.run, new_children)]
    /\ UNCHANGED <<nets, heap, last>>

\* lines 675-713
CondReturn ==
    /\ Ended(ve.run)
    /\ ve.out = Pending
    /\ ve' = [ve EXCEPT !.out = DiscreteDAG_get_conditional(ve.self, ve.marginal_nodes,
                                                           ve.cond_nodes, ve.run.out)]
    /\ UNCHANGED <<nets, heap, last>>

NextCond ==
    \/ CondMarginalsStep
    \/ CondMarginalsNewStep
    \/ CondReturn

SpecCond == InitCond /\ [][NextCond]_vars

\* the conditioning assignment of index ix of the returned table
CondPart(ix, cond_nodes) == SubSeq(ix, Len(ix) - Len(cond_nodes) + 1, Len(ix))

\* ix is on the diagonal of the returned table: the r axis of a node that
\* is in both lists holds the value of its d axis
OnDiagonal(ix, marginal_nodes, cond_nodes) ==
    \A i \in 1..Len(marginal_nodes) :
        marginal_nodes[i] \in Range(cond_nodes) =>
            ix[i] = CondPart(ix, cond_nodes)[IndexOf(cond_nodes, marginal_nodes[i])]

\* the conditioning assignments to which the network gives probability zero
ZeroAssignments(self, cond_nodes) ==
    {c \in Idx([i \in 1..Len(cond_nodes) |-> Len(self.node_alphabets[cond_nodes[i]])]) :
        JointMarginal(self, cond_nodes).data[c] = Zero}

\* C11: in a table returned by get_conditional, under either method, the
\* entries of a conditioning assignment of probability zero are
\* 1/(product of the alphabet sizes of the marginal nodes that are not
\* conditioned on) wherever the axes of a repeated node agree, and none of
\* its entries is NaN
C11_UniformOnZero ==
    IsTensor(ve.out) =>
        \A ix \in DOMAIN ve.out.data :
            CondPart(ix, ve.cond_nodes) \in ZeroAssignments(ve.self, ve.cond_nodes) =>
                /\ ~IsNaN(ve.out.data[ix])
                /\ OnDiagonal(ix, ve.marginal_nodes, ve.cond_nodes) =>
                      ve.out.data[ix] =
                          Rat(1, marginal_alphabet_size(ve.self,
                                     NoRepeats(ve.marginal_nodes, ve.cond_nodes)))

\* a table was returned for a request with a marginal node that is not
\* conditioned on and a conditioning assignment of probability zero
C11_Witness ==
    /\ IsTensor(ve.out)
    /\ NoRepeats(ve.marginal_nodes, ve.cond_nodes) # <<>>
    /\ ZeroAssignments(ve.self, ve.cond_nodes) # {}
    /\ marginal_alphabet_size(ve.self, NoRepeats(ve.marginal_nodes, ve.cond_nodes)) > 1


\* the nodes that are in both lists of the request
Repeated(marginal_nodes, cond_nodes) == Range(marginal_nodes) \cap Range(cond_nodes)

\* C12: when two or more nodes are in both lists, a call of get_conditional
\* that has ended has raised NotImplementedError, and so do
\* add_repeated_nodes_marginal and add_repeated_nodes_conditional on the
\* tables of the request, for every conditioning value
C12_NotImplemented ==
    Cardinality(Repeated(ve.marginal_nodes, ve.cond_nodes)) >= 2 =>
        /\ ve.out # Pending => ve.out = Err("NotImplementedError")
        /\ add_repeated_nodes_conditional(JointMarginal(ve.self, ve.all_nodes),
                                          ve.marginal_nodes, ve.cond_nodes,
                                          node2dims(ve.self)) = Err("NotImplementedError")
        /\ \A cond_vals \in Idx([i \in 1..Len(ve.cond_nodes) |->
                                    node2dims(ve.self)[ve.cond_nodes[i]]]) :
              add_repeated_nodes_marginal(
                  JointMarginal(ve.self, NoRepeats(ve.marginal_nodes, ve.cond_nodes)),
                  ve.marginal_nodes, ve.cond_nodes, node2dims(ve.self), cond_vals)
                = Err("NotImplementedError")


(***************************************************************************)
(* weighted_samples and sample_interventional, one row of the sample       *)
(* matrix.  Columns are 1-based here: column node2ix(node) of the source   *)
(* is position node2ix(self, node) of the row, and a 0-based column number *)
(* c of the source is position c + 1.                                      *)
(***************************************************************************)
\* line 258: samples[:, nodes] = values, the labels used as column numbers
ClampColumns(row, nodes, values) ==
    IF \E j \in DOMAIN nodes : nodes[j] + 1 \notin DOMAIN row THEN Err("IndexError")
    ELSE [row |-> [c \in DOMAIN row |->
                     IF \E j \in DOMAIN nodes : nodes[j] + 1 = c
                     THEN values[CHOOSE j \in DOMAIN nodes :
                                    /\ nodes[j] + 1 = c
                                    /\ \A k \in DOMAIN nodes : nodes[k] + 1 = c => k <= j]
                     ELSE row[c]]]

\* lines 283-292: the weight of the clamped node
weighted_samples_node(self, nodes, values, node, row) ==
    LET parents == self.node2parents[node]
        cond == self.conditionals[node]
        node_values == values[IndexOf(nodes, node)]
        parent_vals == [i \in 1..Len(parents) |-> row[node2ix(self, parents[i])]]
        ix == Append(parent_vals, node_values)
    IN IF Rank(cond) # Len(parents) + 1 THEN Err("IndexError")
       ELSE IF ix \notin DOMAIN cond.data THEN Err("IndexError")
       ELSE [prob |-> cond.data[ix]]

\* lines 305-320: what sample_interventional stores for node
sample_interventional_node(self, nodes2intervention_values, node, row) ==
    LET parents == self.node2parents[node]
        cond == self.conditionals[node]
        node_ix == node2ix(self, node) - 1
        parent_vals == [i \in 1..Len(parents) |-> row[node2ix(self, parents[i])]]
    IN IF node \in DOMAIN nodes2intervention_values
       THEN IF node_ix \notin DOMAIN nodes2intervention_values THEN Err("KeyError")
            ELSE [vals |-> {nodes2intervention_values[node_ix]}]
       ELSE IF Len(parents) = 0
       THEN IF Rank(cond) # 1 THEN Err("ValueError")
            ELSE ChoiceDraws(self.node_alphabets[node],
                             [i \in 1..cond.shape[1] |-> cond.data[<<i - 1>>]])
       ELSE IF Rank(cond) # Len(parents) + 1 THEN Err("ValueError")
       ELSE IF \E i \in 1..Len(parents) : parent_vals[i] \notin 0..(cond.shape[i] - 1)
            THEN Err("IndexError")
       ELSE ChoiceDraws(self.node_alphabets[node],
                        [v \in 1..cond.shape[Rank(cond)] |->
                            cond.data[Append(parent_vals, v - 1)]])

(***************************************************************************)
(* Sampling runs: one network, one call of sample, weighted_samples or     *)
(* sample_interventional, followed node by node along the topological      *)
(* order t.  filled is the set of nodes the loop has passed.               *)
(***************************************************************************)
\* the value the caller supplies for a node
SuppliedValue(seed, node) == (seed + node) % Dim(node)

Reversed(s) == [i \in 1..Len(s) |-> s[Len(s) + 1 - i]]

SamplingRun(self, t, op, nodes, values, iv) ==
    [self |-> self, t |-> t, op |-> op, nodes |-> nodes, values |-> values, iv |-> iv,
     pc |-> IF op = "weighted_samples" THEN "clamp" ELSE "loop",
     pos |-> 1, filled |-> {},
     row |-> [c \in DOMAIN self.node_list |-> 0],
     weights |-> [j \in DOMAIN nodes |-> Zero],
     err |-> ""]

InitSample ==
    /\ nets = <<>>
    /\ heap = <<>>
    /\ last = [op |-> "none", n |-> 0]
    /\ \E arcs \in SUBSET ForwardArcs(Nodes), rev \in BOOLEAN, seed \in 1..NumSeeds,
          fam \in {1, 2}, backwards \in BOOLEAN :
         LET node2parents == ParentLists(Nodes, arcs, rev)
             alphabets == AlphabetsOf(fam, Nodes)
             node_list == IF backwards THEN Reversed(SortedSeq(Nodes)) ELSE SortedSeq(Nodes)
             self == DiscreteDAG(node_list, arcs,
                                 ConditionalsOf(Nodes, node2parents, alphabets, seed),
                                 node2parents, alphabets)
         IN \E t \in TopologicalSorts(self) :
              \/ ve = SamplingRun(self, t, "sample", <<>>, <<>>, <<>>)
              \/ \E nodes \in DistinctLists(Nodes) :
                   ve = SamplingRun(self, t, "weighted_samples", nodes,
                                    [j \in DOMAIN nodes |-> SuppliedValue(seed, nodes[j])],
                                    <<>>)
              \/ \E S \in SUBSET Nodes :
                   ve = SamplingRun(self, t, "sample_interventional", <<>>, <<>>,
                                    [n \in S |-> SuppliedValue(seed, n)])

\* the row with the column of node set to v, and the loop moved on
Stored(v) ==
    [ve EXCEPT !.row = [c \in DOMAIN ve.row |->
                          IF c = node2ix(ve.self, ve.t[ve.pos]) THEN v ELSE ve.row[c]],
               !.filled = @ \cup {ve.t[ve.pos]},
               !.pos = @ + 1,
               !.pc = IF ve.pos + 1 > Len(ve.t) THEN "done" ELSE "loop"]

Passed ==
    [ve EXCEPT !.filled = @ \cup {ve.t[ve.pos]},
               !.pos = @ + 1,
               !.pc = IF ve.pos + 1 > Len(ve.t) THEN "done" ELSE "loop"]

RaisedIn(kind) == [ve EXCEPT !.pc = "raised", !.err = kind]

\* lines 237-252: one turn of the loop of sample
SampleStep ==
    /\ ve.op = "sample" /\ ve.pc = "loop"
    /\ LET d == sample_node(ve.self, ve.t[ve.pos], ve.row)
       IN IF IsErr(d) THEN ve' = RaisedIn(d.err)
          ELSE \E v \in d.vals : ve' = Stored(v)
    /\ UNCHANGED <<nets, heap, last>>

\* line 258
WeightedClamp ==
    /\ ve.op = "weighted_samples" /\ ve.pc = "clamp"
    /\ LET r == ClampColumns(ve.row, ve.nodes, ve.values)
       IN IF IsErr(r) THEN ve' = RaisedIn(r.err)
          ELSE ve' = [ve EXCEPT !.row = r.row, !.pc = "loop"]
    /\ UNCHANGED <<nets, heap, last>>

\* lines 264-293: one turn of the loop of weighted_samples
WeightedStep ==
    /\ ve.op = "weighted_samples" /\ ve.pc = "loop"
    /\ LET node == ve.t[ve.pos]
       IN IF node \notin Range(ve.nodes)
          THEN LET d == sample_node(ve.self, node, ve.row)
               IN IF IsErr(d) THEN ve' = RaisedIn(d.err)
                  ELSE \E v \in d.vals : ve' = Stored(v)
          ELSE LET w == weighted_samples_node(ve.self, ve.nodes, ve.values, node, ve.row)
               IN IF IsErr(w) THEN ve' = RaisedIn(w.err)
                  ELSE ve' = [Passed EXCEPT !.weights =
                                 [j \in DOMAIN ve.weights |->
                                     IF j = IndexOf(ve.nodes, node) THEN w.prob
                                     ELSE ve.weights[j]]]
    /\ UNCHANGED <<nets, heap, last>>

\* lines 298-319: one turn of the loop of sample_interventional; line 298
\* needs a supplied vector
InterventionalStep ==
    /\ ve.op = "sample_interventional" /\ ve.pc = "loop"
    /\ IF DOMAIN ve.iv = {} THEN ve' = RaisedIn("IndexError")
       ELSE LET d == sample_interventional_node(ve.self, ve.iv, ve.t[ve.pos], ve.row)
            IN IF IsErr(d) THEN ve' = RaisedIn(d.err)
               ELSE \E v \in d.vals : ve' = Stored(v)
    /\ UNCHANGED <<nets, heap, last>>

NextSample ==
    \/ SampleStep
    \/ WeightedClamp
    \/ WeightedStep
    \/ InterventionalStep

SpecSample == InitSample /\ [][NextSample]_vars


\* what the row holds for node
Entry(node) == ve.row[node2ix(ve.self, node)]

\* the index of the table of node made of the entries of its parents in
\* the row and the code c
RowIndex(node, c) ==
    Append([i \in 1..Len(ve.self.node2parents[node]) |-> Entry(ve.self.node2parents[node][i])],
           c)

\* the codes of node with nonzero probability in the row of its table that
\* the entries of its parents select
PossibleCodes(node) ==
    {c \in 0..(node2dims(ve.self)[node] - 1) :
        /\ RowIndex(node, c) \in DOMAIN ve.self.conditionals[node].data
        /\ ve.self.conditionals[node].data[RowIndex(node, c)] # Zero}

\* the entry of node is a draw from that row: the code, or the alphabet
\* value of the code
DrawnFromRow(node) ==
    \E c \in PossibleCodes(node) :
        Entry(node) = c \/ Entry(node) = ve.self.node_alphabets[node][c + 1]

\* C13: a row returned by sample_interventional holds, in the column of
\* every intervened node, the value supplied for that node, and in the
\* column of every other node a draw from the row of its table selected by
\* its parents' values
C13_InterventionalRow ==
    (ve.op = "sample_interventional" /\ ve.pc = "done") =>
        \A node \in ve.self.nodes :
            IF node \in DOMAIN ve.iv THEN Entry(node) = ve.iv[node]
            ELSE DrawnFromRow(node)

\* C14: a row returned by weighted_samples holds values[j] in the column
\* of nodes[j], weights[j] is the entry of the table of nodes[j] at its
\* parents' values in the row and values[j], and the other columns are
\* draws from the rows of their tables
C14_WeightedRow ==
    (ve.op = "weighted_samples" /\ ve.pc = "done") =>
        /\ \A j \in DOMAIN ve.nodes :
              /\ Entry(ve.nodes[j]) = ve.values[j]
              /\ RowIndex(ve.nodes[j], ve.values[j]) \in
                     DOMAIN ve.self.conditionals[ve.nodes[j]].data
              /\ ve.weights[j] =
                     ve.self.conditionals[ve.nodes[j]].data[RowIndex(ve.nodes[j], ve.values[j])]
        /\ \A node \in ve.self.nodes \ Range(ve.nodes) : DrawnFromRow(node)

\* C15: sample draws a node when all its parents have been drawn, and every
\* entry of a returned row is a code of its node, of nonzero probability
\* in the row of the node's table that the parents' codes select
C15_SampleCodes ==
    ve.op = "sample" =>
        /\ ve.pc = "loop" => Range(ve.self.node2parents[ve.t[ve.pos]]) \subseteq ve.filled
        /\ ve.pc = "done" => \A node \in ve.self.nodes : Entry(node) \in PossibleCodes(node)


(***************************************************************************)
(* The influence-function builders.  A method call self.name(...) is       *)
(* resolved among the methods class DiscreteDAG defines and those of its   *)
(* collaborator classes; get_standard_imset and the pgmpy inference        *)
(* backend are collaborators, taken by their documented meaning.  Keys of  *)
(* conds2counts are ascending lists of nodes.                              *)
(***************************************************************************)
DiscreteDAGMethods ==
    {"__init__", "copy", "set_conditional", "sample", "weighted_samples",
     "sample_interventional", "log_probability", "predict_from_parents",
     "get_hard_interventional_dag", "_get_marginal_dag_node", "get_marginal_dag",
     "get_marginals_new", "get_marginals", "get_marginal",
     "_get_conditional_pgmpy_values", "get_conditional_pgmpy",
     "get_conditional_importance_sampling", "get_conditional", "get_mean_and_variance",
     "to_torch", "to_pgm", "from_pgm", "fit",
     "get_efficient_influence_function_conditionals",
     "get_efficient_influence_function_conditionals_partial",
     "get_efficient_influence_function_full", "get_efficient_influence_function_partial",
     "get_efficient_influence_function"}

CollaboratorMethods ==
    {"topological_sort", "parents_of", "children_of", "ancestral_subgraph",
     "get_standard_imset"}

\* the lookup of a method on self
Resolve(name) ==
    IF name \in DiscreteDAGMethods \cup CollaboratorMethods THEN [method |-> name]
    ELSE Err("AttributeError")

\* get_standard_imset: every node adds 1 for its family and takes 1 for its
\* parent set; sets with count 0 are not listed
get_standard_imset(self, ignored_nodes) ==
    LET Count(S) ==
            Cardinality({n \in self.nodes \ ignored_nodes :
                            S = Range(self.node2parents[n]) \cup {n}})
            - Cardinality({n \in self.nodes \ ignored_nodes :
                              S = Range(self.node2parents[n])})
    IN [c \in {SortedSeq(S) : S \in {T \in SUBSET self.nodes : Count(T) # 0}} |->
           Count(Range(c))]

\* infer.query(variables, evidence): the exact conditional of the network
infer_query(self, variables, cond_nodes, vals) ==
    LET Probability(nodes, values) ==
            RSumSet({a \in Assignments(self) :
                        \A i \in 1..Len(nodes) : a[nodes[i]] = values[i]},
                    [a \in Assignments(self) |-> JointProb(self, a)])
    IN Tensor([i \in 1..Len(variables) |-> node2dims(self)[variables[i]]],
              LAMBDA ix : RDiv(Probability(variables \o cond_nodes, ix \o vals),
                               Probability(cond_nodes, vals)))

\* lines 898-899 / 930-931: values[a, b] is the b-th target value where the
\* a-th treatment value is cond_value, and 0 elsewhere
OuterValues(self, target_ix, cond_ix, cond_value) ==
    Tensor(<<node2dims(self)[cond_ix], node2dims(self)[target_ix]>>,
           LAMBDA ix : IF self.node_alphabets[cond_ix][ix[1] + 1] = cond_value
                       THEN Rat(self.node_alphabets[target_ix][ix[2] + 1], 1)
                       ELSE Zero)

\* (values * probs).sum() for tables of one shape
WeightedSum(values, probs) ==
    RSumSet(DOMAIN values.data,
            [ix \in DOMAIN values.data |-> RMul(values.data[ix], probs.data[ix])])

\* lines 903-904 / 935-936: the term of the empty conditioning set
UnconditionalMean(self, target_ix, cond_ix, cond_value, t) ==
    LET Mean(probs) ==
            IF IsErr(probs) THEN probs
            ELSE [mean |-> WeightedSum(OuterValues(self, target_ix, cond_ix, cond_value),
                                       probs)]
    IN Mean(get_marginals(self, <<cond_ix, target_ix>>, t))

\* lines 577-588 and 954-956: the table of (cond_ix, target_ix) given
\* clist = vals, and its expected value
ConditionalMean(self, target_ix, cond_ix, cond_value, clist, vals) ==
    LET marginal_nodes == <<cond_ix, target_ix>>
        no_repeats == NoRepeats(marginal_nodes, clist)
        Widened(factor) ==
            IF Len(marginal_nodes) # Len(no_repeats)
            THEN add_repeated_nodes_marginal(factor, marginal_nodes, clist,
                                             node2dims(self), vals)
            ELSE factor
        Mean(probs) ==
            IF IsErr(probs) THEN probs
            ELSE [mean |-> WeightedSum(OuterValues(self, target_ix, cond_ix, cond_value),
                                       probs)]
    IN Mean(Widened(infer_query(self, no_repeats, clist, vals)))

\* the rows' values of the columns cond_set (labels used as column numbers)
Columns(row, cond_set) == [i \in 1..Len(cond_set) |-> row[cond_set[i] + 1]]

\* the first error among the means of a table of means, if any
FirstError(means) ==
    IF \E k \in DOMAIN means : IsErr(means[k])
    THEN means[CHOOSE k \in DOMAIN means : IsErr(means[k])]
    ELSE [ok |-> TRUE]

\* the table of the means of one conditioning set, or the error that
\* computing one of them raised
MeansTable(by_value) ==
    IF IsErr(FirstError(by_value)) THEN FirstError(by_value)
    ELSE [table |-> [vals \in DOMAIN by_value |-> by_value[vals].mean]]

\* the pair the conditionals methods return, or the error that computing
\* one of the means raised
Conditionals(conds2counts, conds2means) ==
    IF IsErr(FirstError(conds2means)) THEN FirstError(conds2means)
    ELSE [conds2counts |-> conds2counts, conds2means |-> conds2means]

\* lines 916-963: for every listed set the means at the conditioning values
\* seen in sampled_values
get_efficient_influence_function_conditionals_partial(self, target_ix, cond_ix, cond_value, ignored_nodes, sampled_values, t) ==
    LET Means(cond_set) ==
            IF cond_set = <<>>
            THEN UnconditionalMean(self, target_ix, cond_ix, cond_value, t)
            ELSE LET cond_values == {Columns(sampled_values[r], cond_set) :
                                        r \in DOMAIN sampled_values}
                 IN MeansTable([vals \in cond_values |->
                                   ConditionalMean(self, target_ix, cond_ix, cond_value,
                                                   cond_set, vals)])
        Built(conds2counts) ==
            Conditionals(conds2counts,
                         [cond_set \in DOMAIN conds2counts |-> Means(cond_set)])
    IN Built(get_standard_imset(self, ignored_nodes))

\* lines 886-914: for every listed set the means at every assignment of
\* the set
get_efficient_influence_function_conditionals(self, target_ix, cond_ix, cond_value, ignored_nodes, t) ==
    LET Means(cond_set) ==
            IF cond_set = <<>>
            THEN UnconditionalMean(self, target_ix, cond_ix, cond_value, t)
            ELSE LET cond_values == Idx([i \in 1..Len(cond_set) |->
                                            node2dims(self)[cond_set[i]]])
                 IN MeansTable([vals \in cond_values |->
                                   ConditionalMean(self, target_ix, cond_ix, cond_value,
                                                   cond_set, vals)])
        Built(conds2counts) ==
            Conditionals(conds2counts,
                         [cond_set \in DOMAIN conds2counts |-> Means(cond_set)])
    IN Built(get_standard_imset(self, ignored_nodes))

\* lines 978-980 / 1015-1017: the propensity is put beside what the
\* conditionals method returned
WithPropensity(propensity, c) ==
    IF IsErr(c) THEN c ELSE [propensity |-> propensity] @@ c

\* lines 1009-1017: the partial builder
get_efficient_influence_function_partial(self, target_ix, cond_ix, cond_value, propensity, ignored_nodes, sampled_values, t) ==
    WithPropensity(propensity,
                   get_efficient_influence_function_conditionals_partial(
                       self, target_ix, cond_ix, cond_value, ignored_nodes,
                       sampled_values, t))

\* lines 974-980: the full builder calls the method named
\* get_efficient_influence_function_conditionals_full
get_efficient_influence_function_full(self, target_ix, cond_ix, cond_value, propensity, ignored_nodes, t) ==
    LET method == Resolve("get_efficient_influence_function_conditionals_full")
    IN IF IsErr(method) THEN method
       ELSE WithPropensity(propensity,
                           get_efficient_influence_function_conditionals(
                               self, target_ix, cond_ix, cond_value, ignored_nodes, t))

\* lines 982-994 / 1019-1032: the score of one row
efficient_influence_function(built, row) ==
    LET Term(cond_set) ==
            IF cond_set = <<>>
            THEN RMul(built.conds2means[cond_set].mean, Rat(built.conds2counts[cond_set], 1))
            ELSE RMul(built.conds2means[cond_set].table[Columns(row, cond_set)],
                      Rat(built.conds2counts[cond_set], 1))
    IN IF \E cond_set \in DOMAIN built.conds2counts :
             /\ cond_set # <<>>
             /\ Columns(row, cond_set) \notin DOMAIN built.conds2means[cond_set].table
       THEN Err("KeyError")
       ELSE [score |-> RDiv(RSumSet(DOMAIN built.conds2counts,
                                    [cond_set \in DOMAIN built.conds2counts |-> Term(cond_set)]),
                            built.propensity)]

\* lines 1036-1070
get_efficient_influence_function(self, target_ix, cond_ix, cond_value, ignored_nodes, sampled_values, partial, t, t_cond) ==
    LET Build(marginal) ==
            IF IsErr(marginal) THEN marginal
            ELSE IF <<cond_value>> \notin DOMAIN marginal.data THEN Err("IndexError")
            ELSE IF partial
            THEN get_efficient_influence_function_partial(
                     self, target_ix, cond_ix, cond_value, marginal.data[<<cond_value>>],
                     ignored_nodes, sampled_values, t)
            ELSE get_efficient_influence_function_full(
                     self, target_ix, cond_ix, cond_value, marginal.data[<<cond_value>>],
                     ignored_nodes, t)
    IN Build(get_marginal(self, cond_ix, t_cond))


(***************************************************************************)
(* Influence-function requests: one network, the two calls of              *)
(* get_efficient_influence_function (partial=False and partial=True with   *)
(* sampled_values = samples), and the evaluation of what was built on the  *)
(* rows of samples.                                                        *)
(***************************************************************************)
InitEIF ==
    /\ nets = <<>>
    /\ heap = <<>>
    /\ last = [op |-> "none", n |-> 0]
    /\ \E arcs \in SUBSET ForwardArcs(Nodes), seed \in 1..NumSeeds,
          target_ix \in Nodes, cond_ix \in Nodes :
         LET self == Network(Nodes, arcs, FALSE, seed, 1)
         IN /\ target_ix # cond_ix
            /\ \E cond_value \in Range(self.node_alphabets[cond_ix]),
                  ignored_nodes \in SUBSET (Nodes \ {target_ix, cond_ix}),
                  t \in TopologicalSorts(ancestral_subgraph(self, {cond_ix, target_ix})) :
                 ve = [self |-> self, target_ix |-> target_ix, cond_ix |-> cond_ix,
                       cond_value |-> cond_value, ignored_nodes |-> ignored_nodes,
                       samples |-> Dataset(seed, NumNodes, MaxRows), t |-> t,
                       t_cond |-> SelectSeq(t, LAMBDA n : n \in ancestral_subgraph(
                                                              self, {cond_ix}).nodes),
                       full |-> Pending, partial |-> Pending, scores |-> Pending]

\* get_efficient_influence_function(..., partial=False)
BuildFull ==
    /\ ve.full = Pending
    /\ ve' = [ve EXCEPT !.full =
                 get_efficient_influence_function(ve.self, ve.target_ix, ve.cond_ix,
                     ve.cond_value, ve.ignored_nodes, ve.samples, FALSE, ve.t, ve.t_cond)]
    /\ UNCHANGED <<nets, heap, last>>

\* get_efficient_influence_function(..., sampled_values=samples, partial=True)
BuildPartial ==
    /\ ve.partial = Pending
    /\ ve' = [ve EXCEPT !.partial =
                 get_efficient_influence_function(ve.self, ve.target_ix, ve.cond_ix,
                     ve.cond_value, ve.ignored_nodes, ve.samples, TRUE, ve.t, ve.t_cond)]
    /\ UNCHANGED <<nets, heap, last>>

\* the functions that were built are applied to samples
ScoreRows ==
    /\ ve.full # Pending /\ ve.partial # Pending /\ ve.scores = Pending
    /\ LET Scores(built) ==
               IF IsErr(built) THEN <<>>
               ELSE [r \in DOMAIN ve.samples |->
                        efficient_influence_function(built, ve.samples[r])]
       IN ve' = [ve EXCEPT !.scores = [full |-> Scores(ve.full),
                                       partial |-> Scores(ve.partial)]]
    /\ UNCHANGED <<nets, heap, last>>

NextEIF ==
    \/ BuildFull
    \/ BuildPartial
    \/ ScoreRows

SpecEIF == InitEIF /\ [][NextEIF]_vars

\* C16: once both calls have ended, both have returned a function, and the
\* two functions give every row of the samples the same score
C16_FullEqualsPartial ==
    (ve.full # Pending /\ ve.partial # Pending) =>
        /\ ~IsErr(ve.full)
        /\ ~IsErr(ve.partial)
        /\ ve.scores # Pending =>
              /\ \A r \in DOMAIN ve.samples : ~IsErr(ve.scores.partial[r])
              /\ ve.scores.full = ve.scores.partial


(***************************************************************************)
(* Elimination runs: one network, one call of get_marginals,               *)
(* get_marginals_new or get_marginal on a non-empty target list, followed  *)
(* step by step.  FairRuns adds that a call that has not ended takes its   *)
(* next step: the code is sequential and nothing stops it.                 *)
(***************************************************************************)
RunsOf(seeds, revs, targets) ==
    /\ nets = <<>>
    /\ heap = <<>>
    /\ last = [op |-> "none", n |-> 0]
    /\ \E arcs \in SUBSET ForwardArcs(Nodes), rev \in revs, seed \in seeds,
          op \in {"get_marginals", "get_marginals_new", "get_marginal"},
          marginal_nodes \in targets :
         LET self == Network(Nodes, arcs, rev, seed, 1)
             anc == ancestral_subgraph(self, Range(marginal_nodes))
         IN /\ op = "get_marginal" => Len(marginal_nodes) = 1
            /\ \E t \in TopologicalSorts(anc) :
                 ve = [self |-> self, op |-> op, marginal_nodes |-> marginal_nodes,
                       anc |-> anc, t |-> t, run |-> StartRun]

\* the target lists: every non-empty set, ascending and descending
InitRuns ==
    RunsOf(1..NumSeeds, BOOLEAN,
           UNION {{SortedSeq(S), Reversed(SortedSeq(S))} : S \in (SUBSET Nodes) \ {{}}})

\* the runs followed to their end: the tables of seed 1, ascending lists
InitFairRuns == RunsOf({1}, {FALSE}, {SortedSeq(S) : S \in (SUBSET Nodes) \ {{}}})

RunMarginalsStep ==
    /\ ve.op = "get_marginals"
    /\ ~Ended(ve.run)
    /\ ve' = [ve EXCEPT !.run = get_marginals_step(ve.self, ve.marginal_nodes,
                                                   ve.anc, ve.t, ve.run)]
    /\ UNCHANGED <<nets, heap, last>>

RunMarginalsNewStep ==
    /\ ve.op = "get_marginals_new"
    /\ ~Ended(ve.run)
    /\ \E new_children \in
            IF ve.run.pc = "head" THEN Perms(NewChildren(ve.anc, ve.t, ve.run)) ELSE {<<>>} :
         ve' = [ve EXCEPT !.run = get_marginals_new_step(ve.self, ve.marginal_nodes,
                                                        ve.anc, ve.t, ve.run, new_children)]
    /\ UNCHANGED <<nets, heap, last>>

RunMarginalStep ==
    /\ ve.op = "get_marginal"
    /\ ~Ended(ve.run)
    /\ ve' = [ve EXCEPT !.run = get_marginal_step(ve.self, ve.marginal_nodes[1],
                                                  ve.anc, ve.t, ve.run)]
    /\ UNCHANGED <<nets, heap, last>>

NextRuns ==
    \/ RunMarginalsStep
    \/ RunMarginalsNewStep
    \/ RunMarginalStep

SpecRuns == InitRuns /\ [][NextRuns]_vars

FairRuns == InitFairRuns /\ [][NextRuns]_vars /\ WF_vars(NextRuns)

\* the run holds a table: it has started and no step has raised
HasTable(st) == st.pc \in {"head", "join", "elim", "finish", "done"}

C18_EndsAtTargets ==
    /\ <>Ended(ve.run)
    /\ [](ve.run.pc = "finish" => Range(ve.run.current_nodes) = Range(ve.marginal_nodes))

\* the node whose table the next step folds in, when the next step is a
\* call of add_variable
NextFolded ==
    IF ve.op = "get_marginals_new" THEN Head(ve.run.todo) ELSE ve.t[ve.run.pos]

\* the parents the next call of add_variable is given
ParentsPassed ==
    IF ve.op = "get_marginals_new"
    THEN SelectSeq(ve.self.node2parents[NextFolded],
                   LAMBDA q : q \in Range(ve.run.current_nodes))
    ELSE ve.self.node2parents[NextFolded]

\* the table add_variable returns keeps the axes of the given table in
\* their order and has the axis of the new node last: entry (ix, v) is the
\* entry ix of the given table plus the log of the node's table at the
\* parents' values in ix and v
AxesKept(r, table, current_nodes, conditional, parents) ==
    /\ r.shape = Append(table.shape, conditional.shape[Rank(conditional)])
    /\ \A ix \in DOMAIN table.data : \A v \in 0..(conditional.shape[Rank(conditional)] - 1) :
          r.data[Append(ix, v)] =
              LogAdd(table.data[ix],
                     no_warn_log(conditional.data[
                         Append([j \in 1..Len(parents) |->
                                    ix[IndexOf(current_nodes, parents[j])]], v)]))

\* C19: when add_variable is about to be called, every declared parent of
\* the node to fold in is in current_nodes, and the table the call returns
\* keeps the existing axes in order with the new axis last
C19_ParentsPresent ==
    ve.run.pc = "join" =>
        /\ Range(ve.self.node2parents[NextFolded]) \subseteq Range(ve.run.current_nodes)
        /\ LET r == add_variable(ve.run.log_table, ve.run.current_nodes,
                                 ve.self.conditionals[NextFolded], node2dims(ve.self),
                                 ParentsPassed)
           IN ~IsErr(r) /\ AxesKept(r, ve.run.log_table, ve.run.current_nodes,
                                    ve.self.conditionals[NextFolded], ParentsPassed)

\* C20: while a run holds a table, the rank of the table is
\* len(current_nodes) and axis i has the size of the alphabet of
\* current_nodes[i]; the positions passed to marginalize were the positions
\* of the summed nodes in current_nodes at that call
C20_TableMatchesNodes ==
    HasTable(ve.run) /\ ve.run.pc # "done" =>
        /\ Rank(ve.run.log_table) = Len(ve.run.current_nodes)
        /\ \A i \in 1..Len(ve.run.current_nodes) :
              ve.run.log_table.shape[i] = node2dims(ve.self)[ve.run.current_nodes[i]]
        /\ \A k \in DOMAIN ve.run.passed.ixs :
              /\ ve.run.passed.ixs[k] \in DOMAIN ve.run.passed.at
              /\ ve.run.passed.at[ve.run.passed.ixs[k]] = ve.run.passed.nodes[k]

\* a run has joined a table and summed a node out of a table of rank 2 or
\* more, and still holds a table of rank 2
C20_Witness ==
    /\ HasTable(ve.run) /\ ve.run.pc # "done"
    /\ Len(ve.run.passed.at) >= 3
    /\ Len(ve.run.current_nodes) = 2


\* C21: in a run of get_marginals or get_marginals_new no node's table is
\* folded into the running table twice, and when the run has ended the
\* folded nodes are exactly the nodes of the ancestral subgraph of the
\* targets
C21_FoldedOnce ==
    (ve.op \in {"get_marginals", "get_marginals_new"} /\ ve.run.pc # "start") =>
        /\ NoDup(ve.run.folded)
        /\ Ended(ve.run) => Range(ve.run.folded) = ve.anc.nodes


\* the nodes of the network that are not in the list, in ascending order
Surviving(self, marginalized_nodes) == SortedSeq(self.nodes \ Range(marginalized_nodes))

\* C22: after get_marginal_dag(list) a network was returned, and the joint
\* distribution it defines over the surviving nodes (read through the
\* returned labels) is the joint distribution of the original network
\* summed over the nodes of the list
C22_JointSummedOut ==
    last.op = "marginal_dag" =>
        /\ last.res # 0
        /\ JointMarginal(Deref(last.res),
                         MapSeq(Surviving(Deref(last.self), last.list), last.labels))
             = JointMarginal(Deref(last.self), Surviving(Deref(last.self), last.list))

=============================================================================
